---- MODULE Spec2Model ----
(***************************************************************************)
(* argc: token parser (parseArgv), command router (CLI.extractCommand),    *)
(* completion walk (walkRouter), input builder (CLI.buildInput) and the    *)
(* schema selector engine (parseSchemaSelector, matchSchemaSelector,       *)
(* buildSchemaSubset).                                                     *)
(*                                                                         *)
(* Tokens, flag names and child names are strings; the string functions    *)
(* of the source (startsWith, slice, indexOf, the camelCase regex, Number) *)
(* are computed character by character.  JavaScript objects are modelled   *)
(* as finite maps over their own keys: flag names, child names and tokens  *)
(* range over strings that are not property names inherited from           *)
(* Object.prototype (`constructor`, `toString`, `__proto__`, ...), and     *)
(* child names are not integer-like, so that Object.entries keeps the      *)
(* declared order.                                                         *)
(***************************************************************************)
EXTENDS Integers, Sequences, FiniteSets, TLC

VARIABLES
    argv,          \* the token list handed to run() / complete()
    schema,        \* this.schema: the command tree (read-only)
    pc,            \* "parse" | "route" | "walk" | "done"
    i,             \* parseArgv: cursor (1-based)
    flags,         \* parseArgv: result.flags
    positionals,   \* parseArgv: result.positionals
    cls,           \* history: <<index, class>> for every classified token
    ri,            \* extractCommand: loop index (1-based)
    current,       \* extractCommand: current node
    commandPath,   \* extractCommand: commandPath
    result,        \* extractCommand: the returned record, Null before return
    tested,        \* history: positional indexes looked up among children
    wi,            \* walkRouter: cursor (1-based)
    wcurrent,      \* walkRouter: current node
    skipped,       \* history: word indexes walkRouter skipped as flag values
    argDefs,       \* buildInput: commandDef.args, the declared argument names
    input,         \* buildInput: the input object under construction
    calls,         \* run: the validator / handler calls made so far
    selector,      \* parseSchemaSelector: the selector string
    written,       \* history: the segments the selector was written from
    steps,         \* parseSchemaSelector: steps
    thrown,        \* parseSchemaSelector: the error thrown, Null when none
    matches,       \* matchSchemaSelector: current
    depth,         \* buildSchemaSubset: depth
    subset,        \* buildSchemaSubset: root, the tree returned; Null before
    heap,          \* the objects of the tree and of the subsets, by reference
    root,          \* buildSchemaSubset: the reference of root, 0 before
    returned,      \* the references buildSchemaSubset returned, in call order
    partial,       \* complete: currentWord, the word under the cursor
    globals,       \* complete: the parameters of the globals schema, or Null
    suggestions,   \* complete: the list returned, Null before
    shown,         \* run: the node showHelp was called for, Null when none
    hasContext,    \* runScriptMode: whether this.options.context is set
    contextPromise,\* runScriptMode: contextPromise, Null or the factory call
    factory,       \* history: the outcome of every call of the factory
    callPc,        \* script: where each handler call of the script stands
    received       \* script: the context each handler was called with

vars == <<argv, schema, pc, i, flags, positionals, cls, ri, current,
          commandPath, result, tested, wi, wcurrent, skipped,
          argDefs, input, calls, selector, written, steps, thrown, matches,
          depth, subset, heap, root, returned, partial, globals,
          suggestions, shown, hasContext, contextPromise, factory, callPc,
          received>>

parseVars == <<i, flags, positionals, cls>>
routeVars == <<ri, current, commandPath, result, tested>>
walkVars == <<wi, wcurrent, skipped>>
inputVars == <<argDefs, input, calls>>
selectorVars == <<selector, written, steps, thrown, matches, depth, subset>>
heapVars == <<heap, root, returned>>
completeVars == <<partial, globals, suggestions>>
runVars == <<shown>>
scriptVars == <<hasContext, contextPromise, factory, callPc, received>>
lateVars == <<heapVars, completeVars, runVars, scriptVars>>
restVars == <<inputVars, selectorVars, lateVars>>
heapOthers == <<completeVars, runVars, scriptVars>>
completeOthers == <<heapVars, runVars, scriptVars>>
runOthers == <<heapVars, completeVars, scriptVars>>

-----------------------------------------------------------------------------
(* Bounds *)

MaxLen == 3

-----------------------------------------------------------------------------
(* Strings *)

Null == <<>>
Some(x) == <<x>>

\* no subset has been built by reference
HeapIdle == heap = <<>> /\ root = 0 /\ returned = <<>>

\* complete() has not been called
CompleteIdle == partial = "" /\ globals = Null /\ suggestions = Null

\* run() has shown no help
RunIdle == shown = Null

\* run() is not in scripting mode
ScriptIdle ==
    /\ hasContext = FALSE
    /\ contextPromise = Null
    /\ factory = <<>>
    /\ callPc = <<>>
    /\ received = <<>>

\* what the construction of subsets by reference never touches
HeapOthersIdle == CompleteIdle /\ RunIdle /\ ScriptIdle

\* the state of what a run of another entry point never touches
LateIdle == HeapIdle /\ CompleteIdle /\ RunIdle /\ ScriptIdle

CharAt(s, k) == SubSeq(s, k, k)

\* s.slice(k - 1) with k 1-based
SliceFrom(s, k) == SubSeq(s, k, Len(s))

StartsWith(s, p) == Len(s) >= Len(p) /\ SubSeq(s, 1, Len(p)) = p

\* s.indexOf(c) + 1: 0 when c does not occur
IndexOf(s, c) ==
    IF \E k \in 1..Len(s) : CharAt(s, k) = c
    THEN CHOOSE k \in 1..Len(s) :
            CharAt(s, k) = c /\ \A j \in 1..(k - 1) : CharAt(s, j) # c
    ELSE 0

LowerLetters == "abcdefghijklmnopqrstuvwxyz"
UpperLetters == "ABCDEFGHIJKLMNOPQRSTUVWXYZ"
Digits == "0123456789"

IsLower(c) == IndexOf(LowerLetters, c) # 0
ToUpperCase(c) == CharAt(UpperLetters, IndexOf(LowerLetters, c))
IsDigit(c) == IndexOf(Digits, c) # 0
DigitValue(c) == IndexOf(Digits, c) - 1

RECURSIVE camelCase(_)
camelCase(str) ==
    IF Len(str) < 2 THEN str
    ELSE IF CharAt(str, 1) = "-" /\ IsLower(CharAt(str, 2))
         THEN ToUpperCase(CharAt(str, 2)) \o camelCase(SliceFrom(str, 3))
         ELSE CharAt(str, 1) \o camelCase(SliceFrom(str, 2))

-----------------------------------------------------------------------------
(* Flag values: boolean, number, string, list *)

VBool(b) == <<"bool", b>>
VStr(s) == <<"str", s>>
\* a decimal number: sign (1 or -1), integer part, fractional digits without
\* trailing zeros
VNum(sign, int, frac) == <<"num", sign, int, frac>>
VList(items) == <<"list", items>>
IsList(v) == v[1] = "list"

AllDigits(s) == \A k \in 1..Len(s) : IsDigit(CharAt(s, k))

RECURSIVE DigitsToNat(_)
DigitsToNat(s) ==
    IF Len(s) = 0 THEN 0
    ELSE 10 * DigitsToNat(SubSeq(s, 1, Len(s) - 1)) + DigitValue(CharAt(s, Len(s)))

RECURSIVE StripTrailingZeros(_)
StripTrailingZeros(s) ==
    IF Len(s) > 0 /\ CharAt(s, Len(s)) = "0"
    THEN StripTrailingZeros(SubSeq(s, 1, Len(s) - 1))
    ELSE s

\* the string without a leading sign
Unsigned(s) ==
    IF Len(s) > 0 /\ (CharAt(s, 1) = "-" \/ CharAt(s, 1) = "+")
    THEN SliceFrom(s, 2) ELSE s

IntPart(s) == IF IndexOf(s, ".") = 0 THEN s ELSE SubSeq(s, 1, IndexOf(s, ".") - 1)
FracPart(s) == IF IndexOf(s, ".") = 0 THEN "" ELSE SliceFrom(s, IndexOf(s, ".") + 1)

\* !Number.isNaN(Number(str)) for decimal literals: an optional sign, digits
\* with at most one `.`, at least one digit.  (Exponent, hex/octal/binary,
\* Infinity and surrounding whitespace are not among the modelled values, so
\* str.trim() is str.)
\* Number("") is 0.
IsNumeric(str) ==
    \/ str = ""
    \/ /\ AllDigits(IntPart(Unsigned(str)))
       /\ AllDigits(FracPart(Unsigned(str)))
       /\ Len(IntPart(Unsigned(str))) + Len(FracPart(Unsigned(str))) > 0

NumberOf(str) ==
    VNum(IF Len(str) > 0 /\ CharAt(str, 1) = "-" THEN -1 ELSE 1,
         DigitsToNat(IntPart(Unsigned(str))),
         StripTrailingZeros(FracPart(Unsigned(str))))

\* parseValue without the str.trim() !== '' test: Number('') is 0
parseValueEmptyIsZero(str) ==
    IF IsNumeric(str) THEN NumberOf(str)
    ELSE IF str = "true" THEN VBool(TRUE)
    ELSE IF str = "false" THEN VBool(FALSE)
    ELSE VStr(str)

parseValue(str) ==
    IF IsNumeric(str) /\ str # "" THEN NumberOf(str)
    ELSE IF str = "true" THEN VBool(TRUE)
    ELSE IF str = "false" THEN VBool(FALSE)
    ELSE VStr(str)

-----------------------------------------------------------------------------
(* Flags: a map from flag name to value *)

EmptyFlags == [k \in {} |-> VBool(TRUE)]

\* flags[key] = value
Assign(f, key, value) ==
    [k \in DOMAIN f \cup {key} |-> IF k = key THEN value ELSE f[k]]

\* setFlag wrapping [existing, value] also when existing is already a list
setFlagNested(f, key, value) ==
    IF key \in DOMAIN f
    THEN Assign(f, key, VList(<<f[key], value>>))
    ELSE Assign(f, key, value)

setFlag(f, key, value) ==
    IF key \in DOMAIN f
    THEN IF IsList(f[key])
         THEN Assign(f, key, VList(Append(f[key][2], value)))
         ELSE Assign(f, key, VList(<<f[key], value>>))
    ELSE Assign(f, key, value)

\* the characters after the dash taken as one flag name
SetCharsAsOneName(f, chars) == Assign(f, chars, VBool(TRUE))

\* for (const char of arg.slice(1)) result.flags[char] = true
RECURSIVE SetChars(_, _)
SetChars(f, chars) ==
    IF Len(chars) = 0 THEN f
    ELSE SetChars(Assign(f, CharAt(chars, 1), VBool(TRUE)), SliceFrom(chars, 2))

\* HasValue without the startsWith('-') test
HasValueAnyNext(args, k) == k + 1 <= Len(args)

\* next !== undefined && !next.startsWith('-'), next = argv[i + 1]
HasValue(args, k) == k + 1 <= Len(args) /\ ~StartsWith(args[k + 1], "-")

-----------------------------------------------------------------------------
(* Command tree *)

\* CommandDef: '~argc'.meta.aliases
Command(id, aliases) ==
    [id |-> id, kind |-> "command", aliases |-> aliases, keys |-> <<>>, kids |-> <<>>]

\* GroupDef: '~argc.group'.children, keys in declared order
Group(id, keys, kids) ==
    [id |-> id, kind |-> "group", aliases |-> <<>>, keys |-> keys, kids |-> kids]

\* a plain object of routers
Plain(id, keys, kids) ==
    [id |-> id, kind |-> "plain", aliases |-> <<>>, keys |-> keys, kids |-> kids]

isCommand(x) == x.kind = "command"
isGroup(x) == x.kind = "group"

\* the children object: own keys in declared order and their values
getRouterChildren(router) ==
    IF isCommand(router) THEN [keys |-> <<>>, kids |-> <<>>]
    ELSE [keys |-> router.keys, kids |-> router.kids]

\* segment in children
HasKey(children, segment) ==
    \E k \in 1..Len(children.keys) : children.keys[k] = segment

\* children[segment]
Child(children, segment) ==
    children.kids[CHOOSE k \in 1..Len(children.keys) : children.keys[k] = segment]

\* aliases?.includes(alias)
Includes(list, x) == \E k \in 1..Len(list) : list[k] = x

\* findByAlias returning the alias, not the child's key, as name
findByAliasAsName(children, alias) ==
    IF \E k \in 1..Len(children.keys) :
          isCommand(children.kids[k]) /\ Includes(children.kids[k].aliases, alias)
    THEN LET k == CHOOSE k \in 1..Len(children.keys) :
                    /\ isCommand(children.kids[k])
                    /\ Includes(children.kids[k].aliases, alias)
                    /\ \A j \in 1..(k - 1) :
                          ~(isCommand(children.kids[j])
                            /\ Includes(children.kids[j].aliases, alias))
         IN Some([name |-> alias, router |-> children.kids[k]])
    ELSE Null

\* CLI.findByAlias: the first child Command, in entry order, that lists the
\* alias; Null when there is none
findByAlias(children, alias) ==
    IF \E k \in 1..Len(children.keys) :
          isCommand(children.kids[k]) /\ Includes(children.kids[k].aliases, alias)
    THEN LET k == CHOOSE k \in 1..Len(children.keys) :
                    /\ isCommand(children.kids[k])
                    /\ Includes(children.kids[k].aliases, alias)
                    /\ \A j \in 1..(k - 1) :
                          ~(isCommand(children.kids[j])
                            /\ Includes(children.kids[j].aliases, alias))
         IN Some([name |-> children.keys[k], router |-> children.kids[k]])
    ELSE Null

\* complete.ts findByAlias: the router of the first child Command that lists
\* the alias, Null when there is none
completeFindByAlias(children, alias) ==
    IF \E k \in 1..Len(children.keys) :
          isCommand(children.kids[k]) /\ Includes(children.kids[k].aliases, alias)
    THEN Some(children.kids[CHOOSE k \in 1..Len(children.keys) :
                    /\ isCommand(children.kids[k])
                    /\ Includes(children.kids[k].aliases, alias)
                    /\ \A j \in 1..(k - 1) :
                          ~(isCommand(children.kids[j])
                            /\ Includes(children.kids[j].aliases, alias))])
    ELSE Null

-----------------------------------------------------------------------------
(* Inputs *)

\* { user: group({ list: c.meta({aliases:['ls']}), show: c.meta({aliases:
\*   ['ls','list']}) }), list: c }
TreeA ==
    Plain("", <<"user", "list">>,
          << Group("user", <<"list", "show">>,
                   << Command("user.list", <<"ls">>),
                      Command("user.show", <<"ls", "list">>) >>),
             Command("list", <<>>) >>)

\* group({}, { show: c.meta({aliases:['ls']}), ls: c, user: { list:
\*   c.meta({aliases:['ls']}) } })
TreeB ==
    Group("", <<"show", "ls", "user">>,
          << Command("show", <<"ls">>),
             Command("ls", <<>>),
             Plain("user", <<"list">>, << Command("user.list", <<"ls">>) >>) >>)

\* the schema is a single command
TreeC == Command("", <<"ls">>)

Trees == {TreeA, TreeB, TreeC}

ParseTokens ==
    {"--", "--no-dry-run", "--offset", "--offset=-10", "--offset=x", "-v",
     "-10", "--db.port", "user", "ls", "5432", "true"}

RouteTokens == {"user", "list", "ls", "zz", "--verbose", "-v", "--", "-ab"}

SeqsUpTo(S, n) == UNION {[1..k -> S] : k \in 0..n}

-----------------------------------------------------------------------------
(* parseArgv: one action per branch of the loop body *)

Arg == argv[i]

InLoop == pc = "parse" /\ i <= Len(argv)

Classified(from, n, class) == [k \in 1..n |-> <<from + k - 1, class>>]

\* ParseSeparator without the i++ before the inner loop: `--` is pushed too
ParseSeparatorKeepsDashes ==
    /\ InLoop
    /\ Arg = "--"
    /\ positionals' = positionals \o SubSeq(argv, i, Len(argv))
    /\ cls' = cls \o <<<<i, "separator">>>>
                  \o Classified(i + 1, Len(argv) - i, "positional")
    /\ i' = Len(argv) + 1
    /\ UNCHANGED <<restVars, argv, schema, pc, flags, routeVars, walkVars>>

\* arg === '--': the rest is positional, break
ParseSeparator ==
    /\ InLoop
    /\ Arg = "--"
    /\ positionals' = positionals \o SubSeq(argv, i + 1, Len(argv))
    /\ cls' = cls \o <<<<i, "separator">>>>
                  \o Classified(i + 1, Len(argv) - i, "positional")
    /\ i' = Len(argv) + 1
    /\ UNCHANGED <<restVars, argv, schema, pc, flags, routeVars, walkVars>>

\* --no-<name>
ParseNegation ==
    /\ InLoop
    /\ Arg # "--"
    /\ StartsWith(Arg, "--no-")
    /\ flags' = Assign(flags, camelCase(SliceFrom(Arg, 6)), VBool(FALSE))
    /\ cls' = Append(cls, <<i, "flag">>)
    /\ i' = i + 1
    /\ UNCHANGED <<restVars, argv, schema, pc, positionals, routeVars, walkVars>>

IsLong(arg) == arg # "--" /\ ~StartsWith(arg, "--no-") /\ StartsWith(arg, "--")

\* --key=value
ParseLongEquals ==
    /\ InLoop
    /\ IsLong(Arg)
    /\ IndexOf(Arg, "=") # 0
    /\ flags' = setFlag(flags, camelCase(SubSeq(Arg, 3, IndexOf(Arg, "=") - 1)),
                        parseValue(SliceFrom(Arg, IndexOf(Arg, "=") + 1)))
    /\ cls' = Append(cls, <<i, "flag">>)
    /\ i' = i + 1
    /\ UNCHANGED <<restVars, argv, schema, pc, positionals, routeVars, walkVars>>

\* ParseLong without the i++ that skips the consumed value
ParseLongNoSkip ==
    /\ InLoop
    /\ IsLong(Arg)
    /\ IndexOf(Arg, "=") = 0
    /\ IF HasValue(argv, i)
       THEN /\ flags' = setFlag(flags, camelCase(SliceFrom(Arg, 3)),
                                parseValue(argv[i + 1]))
            /\ cls' = cls \o << <<i, "flag">>, <<i + 1, "value">> >>
            /\ i' = i + 1
       ELSE /\ flags' = Assign(flags, camelCase(SliceFrom(Arg, 3)), VBool(TRUE))
            /\ cls' = Append(cls, <<i, "flag">>)
            /\ i' = i + 1
    /\ UNCHANGED <<restVars, argv, schema, pc, positionals, routeVars, walkVars>>

\* --key or --key value
ParseLong ==
    /\ InLoop
    /\ IsLong(Arg)
    /\ IndexOf(Arg, "=") = 0
    /\ IF HasValue(argv, i)
       THEN /\ flags' = setFlag(flags, camelCase(SliceFrom(Arg, 3)),
                                parseValue(argv[i + 1]))
            /\ cls' = cls \o << <<i, "flag">>, <<i + 1, "value">> >>
            /\ i' = i + 2
       ELSE /\ flags' = Assign(flags, camelCase(SliceFrom(Arg, 3)), VBool(TRUE))
            /\ cls' = Append(cls, <<i, "flag">>)
            /\ i' = i + 1
    /\ UNCHANGED <<restVars, argv, schema, pc, positionals, routeVars, walkVars>>

IsDash(arg) == ~StartsWith(arg, "--") /\ StartsWith(arg, "-")

\* -k or -k value
ParseShort ==
    /\ InLoop
    /\ IsDash(Arg)
    /\ Len(Arg) = 2
    /\ IF HasValue(argv, i)
       THEN /\ flags' = setFlag(flags, CharAt(Arg, 2), parseValue(argv[i + 1]))
            /\ cls' = cls \o << <<i, "flag">>, <<i + 1, "value">> >>
            /\ i' = i + 2
       ELSE /\ flags' = Assign(flags, CharAt(Arg, 2), VBool(TRUE))
            /\ cls' = Append(cls, <<i, "flag">>)
            /\ i' = i + 1
    /\ UNCHANGED <<restVars, argv, schema, pc, positionals, routeVars, walkVars>>

\* -abc
ParseCombined ==
    /\ InLoop
    /\ IsDash(Arg)
    /\ Len(Arg) > 2
    /\ flags' = SetChars(flags, SliceFrom(Arg, 2))
    /\ cls' = Append(cls, <<i, "flag">>)
    /\ i' = i + 1
    /\ UNCHANGED <<restVars, argv, schema, pc, positionals, routeVars, walkVars>>

\* anything else, including "" and "-"
ParsePositional ==
    /\ InLoop
    /\ ~StartsWith(Arg, "--")
    /\ ~(StartsWith(Arg, "-") /\ Len(Arg) >= 2)
    /\ positionals' = Append(positionals, Arg)
    /\ cls' = Append(cls, <<i, "positional">>)
    /\ i' = i + 1
    /\ UNCHANGED <<restVars, argv, schema, pc, flags, routeVars, walkVars>>

\* return result; run() goes on to extractCommand(parsed.positionals)
ParseReturn ==
    /\ pc = "parse"
    /\ i > Len(argv)
    /\ pc' = "route"
    /\ UNCHANGED <<restVars, argv, schema, parseVars, routeVars, walkVars>>

-----------------------------------------------------------------------------
(* CLI.extractCommand(parsed.positionals) *)

Segment == positionals[ri]

\* RouteResult returning the root instead of the current router
RouteResultAtRoot(cmd, rest, failed) ==
    Some([commandPath |-> commandPath, command |-> cmd, remaining |-> rest,
          router |-> schema, failedAt |-> failed])

\* the record extractCommand returns
RouteResult(cmd, rest, failed) ==
    Some([commandPath |-> commandPath, command |-> cmd, remaining |-> rest,
          router |-> current, failedAt |-> failed])

\* RouteAtCommand with positionals.slice(i + 1)
RouteAtCommandSkipsOne ==
    /\ pc = "route"
    /\ ri <= Len(positionals)
    /\ isCommand(current)
    /\ result' = RouteResult(Some(current),
                             SubSeq(positionals, ri + 1, Len(positionals)), Null)
    /\ pc' = "walk"
    /\ UNCHANGED <<restVars, argv, schema, parseVars, ri, current, commandPath, tested,
                   walkVars>>

\* isCommand(current) inside the loop: return with the rest as remaining
RouteAtCommand ==
    /\ pc = "route"
    /\ ri <= Len(positionals)
    /\ isCommand(current)
    /\ result' = RouteResult(Some(current),
                             SubSeq(positionals, ri, Len(positionals)), Null)
    /\ pc' = "walk"
    /\ UNCHANGED <<restVars, argv, schema, parseVars, ri, current, commandPath, tested,
                   walkVars>>

\* segment in children
RouteDirect ==
    /\ pc = "route"
    /\ ri <= Len(positionals)
    /\ ~isCommand(current)
    /\ HasKey(getRouterChildren(current), Segment)
    /\ commandPath' = Append(commandPath, Segment)
    /\ current' = Child(getRouterChildren(current), Segment)
    /\ tested' = tested \cup {ri}
    /\ ri' = ri + 1
    /\ UNCHANGED <<restVars, argv, schema, pc, parseVars, result, walkVars>>

\* alias match
RouteAlias ==
    /\ pc = "route"
    /\ ri <= Len(positionals)
    /\ ~isCommand(current)
    /\ ~HasKey(getRouterChildren(current), Segment)
    /\ findByAlias(getRouterChildren(current), Segment) # Null
    /\ LET aliasMatch == findByAlias(getRouterChildren(current), Segment)[1]
       IN /\ commandPath' = Append(commandPath, aliasMatch.name)
          /\ current' = aliasMatch.router
    /\ tested' = tested \cup {ri}
    /\ ri' = ri + 1
    /\ UNCHANGED <<restVars, argv, schema, pc, parseVars, result, walkVars>>

\* failed to match: return the current router for suggestions
RouteFail ==
    /\ pc = "route"
    /\ ri <= Len(positionals)
    /\ ~isCommand(current)
    /\ ~HasKey(getRouterChildren(current), Segment)
    /\ findByAlias(getRouterChildren(current), Segment) = Null
    /\ result' = RouteResult(Null, <<>>, Some(Segment))
    /\ tested' = tested \cup {ri}
    /\ pc' = "walk"
    /\ UNCHANGED <<restVars, argv, schema, parseVars, ri, current, commandPath, walkVars>>

\* the loop ran out of positionals: a command, or a router (group)
RouteEnd ==
    /\ pc = "route"
    /\ ri > Len(positionals)
    /\ result' = IF isCommand(current)
                 THEN RouteResult(Some(current), <<>>, Null)
                 ELSE RouteResult(Null, <<>>, Null)
    /\ pc' = "walk"
    /\ UNCHANGED <<restVars, argv, schema, parseVars, ri, current, commandPath, tested,
                   walkVars>>

-----------------------------------------------------------------------------
(* walkRouter(router, words) over the same token list *)

Word == argv[wi]

\* the peek after a flag: the next word exists, is no flag, the current node
\* is no command and the word is neither a child nor an alias of a child
SkipsValue(words, k, node) ==
    /\ k + 1 <= Len(words)
    /\ ~StartsWith(words[k + 1], "-")
    /\ ~isCommand(node)
    /\ ~HasKey(getRouterChildren(node), words[k + 1])
    /\ completeFindByAlias(getRouterChildren(node), words[k + 1]) = Null

\* word.startsWith('-')
WalkFlag ==
    /\ pc = "walk"
    /\ wi <= Len(argv)
    /\ StartsWith(Word, "-")
    /\ IF SkipsValue(argv, wi, wcurrent)
       THEN wi' = wi + 2 /\ skipped' = skipped \cup {wi + 1}
       ELSE wi' = wi + 1 /\ skipped' = skipped
    /\ UNCHANGED <<restVars, argv, schema, pc, parseVars, routeVars, wcurrent>>

\* isCommand(current): break
WalkAtCommand ==
    /\ pc = "walk"
    /\ wi <= Len(argv)
    /\ ~StartsWith(Word, "-")
    /\ isCommand(wcurrent)
    /\ pc' = "done"
    /\ UNCHANGED <<restVars, argv, schema, parseVars, routeVars, walkVars>>

\* word in children
WalkDirect ==
    /\ pc = "walk"
    /\ wi <= Len(argv)
    /\ ~StartsWith(Word, "-")
    /\ ~isCommand(wcurrent)
    /\ HasKey(getRouterChildren(wcurrent), Word)
    /\ wcurrent' = Child(getRouterChildren(wcurrent), Word)
    /\ wi' = wi + 1
    /\ UNCHANGED <<restVars, argv, schema, pc, parseVars, routeVars, skipped>>

\* aliased
WalkAlias ==
    /\ pc = "walk"
    /\ wi <= Len(argv)
    /\ ~StartsWith(Word, "-")
    /\ ~isCommand(wcurrent)
    /\ ~HasKey(getRouterChildren(wcurrent), Word)
    /\ completeFindByAlias(getRouterChildren(wcurrent), Word) # Null
    /\ wcurrent' = completeFindByAlias(getRouterChildren(wcurrent), Word)[1]
    /\ wi' = wi + 1
    /\ UNCHANGED <<restVars, argv, schema, pc, parseVars, routeVars, skipped>>

\* no child and no alias: break
WalkBreak ==
    /\ pc = "walk"
    /\ wi <= Len(argv)
    /\ ~StartsWith(Word, "-")
    /\ ~isCommand(wcurrent)
    /\ ~HasKey(getRouterChildren(wcurrent), Word)
    /\ completeFindByAlias(getRouterChildren(wcurrent), Word) = Null
    /\ pc' = "done"
    /\ UNCHANGED <<restVars, argv, schema, parseVars, routeVars, walkVars>>

\* i >= words.length: return current
WalkEnd ==
    /\ pc = "walk"
    /\ wi > Len(argv)
    /\ pc' = "done"
    /\ UNCHANGED <<restVars, argv, schema, parseVars, routeVars, walkVars>>

-----------------------------------------------------------------------------
(* Specification *)

Init ==
    /\ \/ argv \in SeqsUpTo(ParseTokens, MaxLen) /\ schema = TreeA
       \/ argv \in SeqsUpTo(RouteTokens, MaxLen) /\ schema \in Trees
    /\ pc = "parse"
    /\ i = 1
    /\ flags = EmptyFlags
    /\ positionals = <<>>
    /\ cls = <<>>
    /\ ri = 1
    /\ current = schema
    /\ commandPath = <<>>
    /\ result = Null
    /\ tested = {}
    /\ wi = 1
    /\ wcurrent = schema
    /\ skipped = {}
    /\ argDefs = <<>>
    /\ input = EmptyFlags
    /\ calls = <<>>
    /\ selector = ""
    /\ written = Null
    /\ steps = <<>>
    /\ thrown = Null
    /\ matches = <<>>
    /\ depth = 0
    /\ subset = Null
    /\ LateIdle

Next ==
    \/ ParseSeparator
    \/ ParseNegation
    \/ ParseLongEquals
    \/ ParseLong
    \/ ParseShort
    \/ ParseCombined
    \/ ParsePositional
    \/ ParseReturn
    \/ RouteAtCommand
    \/ RouteDirect
    \/ RouteAlias
    \/ RouteFail
    \/ RouteEnd
    \/ WalkFlag
    \/ WalkAtCommand
    \/ WalkDirect
    \/ WalkAlias
    \/ WalkBreak
    \/ WalkEnd

Spec == Init /\ [][Next]_vars

TypeOK ==
    /\ pc \in {"parse", "route", "walk", "done"}
    /\ i \in 1..(Len(argv) + 1)
    /\ ri \in 1..(Len(positionals) + 1)
    /\ wi \in 1..(Len(argv) + 1)

-----------------------------------------------------------------------------
(* Properties of parseArgv *)

\* the parser has returned
Parsed == pc # "parse"

HasSeparator == \E k \in 1..Len(argv) : argv[k] = "--"

\* index of the first `--` token, Len(argv) + 1 when there is none
FirstSeparator ==
    IF HasSeparator
    THEN CHOOSE k \in 1..Len(argv) :
            argv[k] = "--" /\ \A j \in 1..(k - 1) : argv[j] # "--"
    ELSE Len(argv) + 1

\* the token indexes classified as class
IndexesOf(class) ==
    {k \in 1..Len(argv) : \E e \in 1..Len(cls) : cls[e] = <<k, class>>}

\* how many times token k was classified
TimesClassified(k) == Cardinality({e \in 1..Len(cls) : cls[e][1] = k})

\* the tokens of s at the indexes in S, in original order
RECURSIVE TokensAt(_, _, _)
TokensAt(s, S, k) ==
    IF k > Len(s) THEN <<>>
    ELSE (IF k \in S THEN <<s[k]>> ELSE <<>>) \o TokensAt(s, S, k + 1)

\* C1: for a token list without `--`, every token is classified exactly once
\* as flag name, flag value or positional; positionals is the sub-sequence of
\* the tokens classified positional, in original order; no token is lost.
C1_ClassifiedExactlyOnce ==
    (Parsed /\ ~HasSeparator) =>
        /\ \A k \in 1..Len(argv) : TimesClassified(k) = 1
        /\ \A e \in 1..Len(cls) : cls[e][2] \in {"flag", "value", "positional"}
        /\ positionals = TokensAt(argv, IndexesOf("positional"), 1)
        /\ IndexesOf("value") \cap IndexesOf("positional") = {}
        /\ Cardinality(IndexesOf("flag")) + Cardinality(IndexesOf("value"))
              + Len(positionals) = Len(argv)

\* a flag, a consumed value and positionals before and after them
C1_Witness ==
    /\ Parsed
    /\ ~HasSeparator
    /\ Len(argv) = 3
    /\ IndexesOf("flag") = {1}
    /\ IndexesOf("value") = {2}
    /\ positionals = <<argv[3]>>

\* `--name` without `=` and not `--no-...`, or a single-letter `-x`
C2_ValueOrBooleanFlag(tok) ==
    \/ /\ StartsWith(tok, "--")
       /\ Len(tok) > 2
       /\ ~StartsWith(tok, "--no-")
       /\ \A k \in 1..Len(tok) : CharAt(tok, k) # "="
    \/ /\ Len(tok) = 2
       /\ CharAt(tok, 1) = "-"
       /\ CharAt(tok, 2) # "-"

C2_NextIsValue(k) == k + 1 <= Len(argv) /\ CharAt(argv[k + 1], 1) # "-"

C2_Key(tok) == IF Len(tok) = 2 THEN CharAt(tok, 2) ELSE camelCase(SliceFrom(tok, 3))

C2_Step ==
    (InLoop /\ C2_ValueOrBooleanFlag(Arg)) =>
        IF C2_NextIsValue(i)
        THEN /\ i' = i + 2
             /\ cls' = cls \o << <<i, "flag">>, <<i + 1, "value">> >>
             /\ \/ flags'[C2_Key(Arg)] = parseValue(argv[i + 1])
                \/ /\ IsList(flags'[C2_Key(Arg)])
                   /\ flags'[C2_Key(Arg)][2][Len(flags'[C2_Key(Arg)][2])]
                         = parseValue(argv[i + 1])
             /\ positionals' = positionals
        ELSE /\ i' = i + 1
             /\ cls' = Append(cls, <<i, "flag">>)
             /\ flags'[C2_Key(Arg)] = VBool(TRUE)
             /\ positionals' = positionals

\* C2: `--name` (no `=`, not `--no-`) or `-x` takes the next token as its value
\* iff a next token exists and does not start with `-`; otherwise the flag is
\* set to true and the next token is classified on its own, also when the next
\* token names a subcommand.
C2_ValueIffNextNotDash == [][C2_Step]_vars

\* `--offset user`: the next token names a child of the root and is consumed
C2_Witness ==
    /\ Parsed
    /\ schema = TreeA
    /\ argv = <<"--offset", "user", "-v">>
    /\ flags = Assign(Assign(EmptyFlags, "offset", VStr("user")), "v", VBool(TRUE))
    /\ positionals = <<>>

C3_Inv ==
    (Parsed /\ HasSeparator) =>
        /\ positionals =
              TokensAt(SubSeq(argv, 1, FirstSeparator - 1),
                       IndexesOf("positional"), 1)
              \o SubSeq(argv, FirstSeparator + 1, Len(argv))
        /\ \A e \in 1..Len(cls) :
              cls[e][1] = FirstSeparator => cls[e][2] = "separator"
        /\ \A e \in 1..Len(cls) :
              cls[e][1] > FirstSeparator => cls[e][2] = "positional"

C3_Frame ==
    (pc = "parse" /\ i >= FirstSeparator) => flags' = flags

\* C3: every token after the first `--` is appended to positionals verbatim
\* and in order; the `--` itself is in neither flags nor positionals; no token
\* after it adds or changes a flag.
C3_AfterSeparatorPositional == []C3_Inv /\ [][C3_Frame]_vars

\* flag-looking tokens after the separator
C3_Witness ==
    /\ Parsed
    /\ argv = <<"-v", "--", "--offset=x">>
    /\ positionals = <<"--offset=x">>
    /\ DOMAIN flags = {"v"}

C4_Chars(tok) == {CharAt(tok, k) : k \in 2..Len(tok)}

C4_Bundle(tok) == Len(tok) > 2 /\ CharAt(tok, 1) = "-" /\ CharAt(tok, 2) # "-"

C4_Step ==
    (InLoop /\ C4_Bundle(Arg)) =>
        /\ i' = i + 1
        /\ DOMAIN flags' = DOMAIN flags \cup C4_Chars(Arg)
        /\ \A c \in C4_Chars(Arg) : flags'[c] = VBool(TRUE)
        /\ \A k \in DOMAIN flags \ C4_Chars(Arg) : flags'[k] = flags[k]
        /\ positionals' = positionals
        /\ cls' = Append(cls, <<i, "flag">>)

C4_Examples ==
    /\ (Parsed /\ argv = <<"--offset", "-10">>) =>
          flags = Assign(Assign(Assign(EmptyFlags, "offset", VBool(TRUE)),
                                "1", VBool(TRUE)), "0", VBool(TRUE))
    /\ (Parsed /\ argv = <<"--offset=-10">>) =>
          flags = Assign(EmptyFlags, "offset", VNum(-1, 10, ""))

\* C4: a bundled token `-abc` sets every character after the dash to true and
\* never consumes a value; `--offset -10` gives offset, 1 and 0 all true,
\* `--offset=-10` gives the number -10.
C4_BundledShortFlags == []C4_Examples /\ [][C4_Step]_vars

\* `-10 user`: the token after the bundle stays a positional
C4_Witness ==
    /\ Parsed
    /\ argv = <<"--offset", "-10", "user">>
    /\ positionals = <<"user">>
    /\ DOMAIN flags = {"offset", "1", "0"}

\* the flag tokens: before the first `--`, a dash and at least one more
\* character (such a token is never consumed as a value)
C5_FlagIndexes ==
    {k \in 1..(FirstSeparator - 1) : StartsWith(argv[k], "-") /\ Len(argv[k]) >= 2}

\* the flag names a flag token supplies
C5_Names(tok) ==
    IF StartsWith(tok, "--no-") THEN {camelCase(SliceFrom(tok, 6))}
    ELSE IF StartsWith(tok, "--")
         THEN {camelCase(SubSeq(tok, 3, IF IndexOf(tok, "=") = 0 THEN Len(tok)
                                        ELSE IndexOf(tok, "=") - 1))}
         ELSE {CharAt(tok, k) : k \in 2..Len(tok)}

\* the occurrence at k comes with a value: `--name=value`, or `--name` / `-x`
\* followed by a token that does not start with `-`
C5_CarriesValue(k) ==
    \/ StartsWith(argv[k], "--") /\ ~StartsWith(argv[k], "--no-")
          /\ IndexOf(argv[k], "=") # 0
    \/ C2_ValueOrBooleanFlag(argv[k]) /\ C2_NextIsValue(k)

C5_Supplied(k) ==
    IF StartsWith(argv[k], "--no-") THEN VBool(FALSE)
    ELSE IF StartsWith(argv[k], "--") /\ IndexOf(argv[k], "=") # 0
         THEN parseValue(SliceFrom(argv[k], IndexOf(argv[k], "=") + 1))
    ELSE IF C5_CarriesValue(k) THEN parseValue(argv[k + 1])
    ELSE VBool(TRUE)

C5_Occurrences(name) == {k \in C5_FlagIndexes : name \in C5_Names(argv[k])}

\* the values supplied for name, in encounter order, from token k on
RECURSIVE C5_Values(_, _)
C5_Values(name, k) ==
    IF k > Len(argv) THEN <<>>
    ELSE (IF k \in C5_Occurrences(name) THEN <<C5_Supplied(k)>> ELSE <<>>)
            \o C5_Values(name, k + 1)

C5_AllNames == UNION {C5_Names(argv[k]) : k \in C5_FlagIndexes}

\* C5 as stated: a flag name supplied k >= 2 times holds the list of the k
\* supplied values in encounter order.
C5_RepeatedFlagsAccumulate ==
    Parsed =>
        \A name \in C5_AllNames :
            Cardinality(C5_Occurrences(name)) >= 2 =>
                flags[name] = VList(C5_Values(name, 1))

\* the last occurrence of name
C5_Last(name) ==
    CHOOSE k \in C5_Occurrences(name) : \A j \in C5_Occurrences(name) : j <= k

\* C5 amended: a flag name supplied k >= 2 times, every time with a value,
\* holds the list of the k values in encounter order; an occurrence without
\* a value assigns its boolean and replaces what the entry held.
C5_RepeatedValuesAccumulate ==
    Parsed =>
        \A name \in C5_AllNames :
            /\ (/\ Cardinality(C5_Occurrences(name)) >= 2
                /\ \A k \in C5_Occurrences(name) : C5_CarriesValue(k)) =>
                   flags[name] = VList(C5_Values(name, 1))
            /\ ~C5_CarriesValue(C5_Last(name)) =>
                   flags[name] = C5_Supplied(C5_Last(name))

\* three values for one name: the second repeat appends to the list
C5_Witness ==
    /\ Parsed
    /\ argv = <<"--offset=-10", "--offset=x", "--offset=-10">>
    /\ flags = Assign(EmptyFlags, "offset",
                      VList(<<VNum(-1, 10, ""), VStr("x"), VNum(-1, 10, "")>>))

\* a nested mapping, the value a dotted flag is documented to build
C6_Mapping(m) == <<"map", m>>

\* C6: a dotted flag name builds nested mappings: `--db.port 5432` gives
\* {db: {port: 5432}} and no flat key containing a dot is created.
C6_DotPathNests ==
    Parsed =>
        /\ \A key \in DOMAIN flags : IndexOf(key, ".") = 0
        /\ argv = <<"--db.port", "5432">> =>
              flags = Assign(EmptyFlags, "db",
                             C6_Mapping(Assign(EmptyFlags, "port",
                                               VNum(1, 5432, ""))))

-----------------------------------------------------------------------------
(* Properties of extractCommand *)

\* extractCommand has returned
Routed == result # Null

R == result[1]

NoNode == [id |-> "?", kind |-> "none", aliases |-> <<>>, keys |-> <<>>, kids |-> <<>>]

\* the node found by following the child keys of path from node
RECURSIVE NodeAt(_, _)
NodeAt(node, path) ==
    IF Len(path) = 0 THEN node
    ELSE IF \E k \in 1..Len(node.keys) : node.keys[k] = path[1]
         THEN NodeAt(node.kids[CHOOSE k \in 1..Len(node.keys) :
                                  node.keys[k] = path[1]], Tail(path))
         ELSE NoNode

\* tok is the key of a child of node
C7_NamesChild(node, tok) == \E k \in 1..Len(node.keys) : node.keys[k] = tok

\* tok is an alias of a child Command of node
C7_AliasesChild(node, tok) ==
    \E k \in 1..Len(node.keys) :
        /\ node.kids[k].kind = "command"
        /\ \E a \in 1..Len(node.kids[k].aliases) : node.kids[k].aliases[a] = tok

\* positional k was matched at the node reached by the k - 1 names before it
C7_Matched(k) ==
    LET parent == NodeAt(schema, SubSeq(R.commandPath, 1, k - 1))
    IN /\ parent.kind \in {"group", "plain"}
       /\ C7_NamesChild(parent, R.commandPath[k])
       /\ \/ positionals[k] = R.commandPath[k]
          \/ /\ ~C7_NamesChild(parent, positionals[k])
             /\ C7_AliasesChild(parent, positionals[k])

\* C7: command and failedAt are never both set; both are null exactly when
\* every positional was consumed and the walk ended on a Group; a non-null
\* failedAt is the first positional that matched neither a child name nor an
\* alias at the Group reached so far, commandPath is the matched prefix and
\* router is that Group.
C7_ResolutionResult ==
    Routed =>
        /\ ~(R.command # Null /\ R.failedAt # Null)
        /\ Len(R.commandPath) <= Len(positionals)
        /\ \A k \in 1..Len(R.commandPath) : C7_Matched(k)
        /\ R.router = NodeAt(schema, R.commandPath)
        /\ (R.command = Null /\ R.failedAt = Null) <=>
              (/\ Len(R.commandPath) = Len(positionals)
               /\ R.router.kind \in {"group", "plain"})
        /\ R.failedAt # Null =>
              /\ Len(R.commandPath) < Len(positionals)
              /\ R.failedAt = Some(positionals[Len(R.commandPath) + 1])
              /\ R.router.kind \in {"group", "plain"}
              /\ ~C7_NamesChild(R.router, R.failedAt[1])
              /\ ~C7_AliasesChild(R.router, R.failedAt[1])
              /\ R.command = Null

\* a miss below the root: `user zz`
C7_Witness ==
    /\ Routed
    /\ schema = TreeA
    /\ positionals = <<"user", "zz">>
    /\ R.failedAt = Some("zz")
    /\ R.command = Null
    /\ R.commandPath = <<"user">>
    /\ R.router.id = "user"

C8_Step ==
    (pc = "route" /\ ri <= Len(positionals) /\ current.kind # "command") =>
        /\ C7_NamesChild(current, Segment) =>
              /\ current' = NodeAt(current, <<Segment>>)
              /\ commandPath' = Append(commandPath, Segment)
        /\ (~C7_NamesChild(current, Segment) /\ C7_AliasesChild(current, Segment)) =>
              \E k \in 1..Len(current.keys) :
                  /\ current.kids[k].kind = "command"
                  /\ \E a \in 1..Len(current.kids[k].aliases) :
                        current.kids[k].aliases[a] = Segment
                  /\ current' = current.kids[k]
                  /\ commandPath' = Append(commandPath, current.keys[k])
                  \* routing by the canonical name gives the same node
                  /\ NodeAt(current, <<current.keys[k]>>) = current'

\* C8: at a Group a token resolves to the child of that key when there is
\* one, and only otherwise to a child Command that lists it as an alias;
\* commandPath records the child's canonical key either way, so the alias and
\* the canonical name lead to the same Command and commandPath.
C8_NameBeforeAlias == [][C8_Step]_vars

\* `user ls` resolved through the alias of user.list
C8_Witness ==
    /\ Routed
    /\ schema = TreeA
    /\ positionals = <<"user", "ls">>
    /\ R.commandPath = <<"user", "list">>
    /\ R.command = Some(NodeAt(TreeA, <<"user", "list">>))

\* C9: once the walk reaches a Command no further token is consumed: on
\* success remaining is the suffix after the routed prefix,
\* Len(commandPath) + Len(remaining) = Len(positionals), and no token of
\* remaining was matched against child names or aliases.
C9_RemainingIsSuffix ==
    (Routed /\ R.command # Null) =>
        /\ R.remaining =
              SubSeq(positionals, Len(R.commandPath) + 1, Len(positionals))
        /\ Len(R.commandPath) + Len(R.remaining) = Len(positionals)
        /\ tested = 1..Len(R.commandPath)

\* `list user`: the token after the command names a root child, not matched
C9_Witness ==
    /\ Routed
    /\ schema = TreeA
    /\ positionals = <<"list", "user">>
    /\ R.command # Null
    /\ R.commandPath = <<"list">>
    /\ R.remaining = <<"user">>

-----------------------------------------------------------------------------
(* Completion walk against live execution *)

\* C10: for every token list the node walkRouter reaches is the node that
\* parseArgv followed by extractCommand reaches.
C10_WalkAgreesWithExecution ==
    pc = "done" => wcurrent.id = R.router.id

-----------------------------------------------------------------------------
(* Input builder: CLI.buildInput and the steps of CLI.run around it *)

MaxArgs == 3

EndsWith(s, p) ==
    Len(s) >= Len(p) /\ SubSeq(s, Len(s) - Len(p) + 1, Len(s)) = p

\* argName.endsWith('...')
isVariadic(argName) == EndsWith(argName, "...")

normalizeArgName(name) ==
    IF EndsWith(name, "...") THEN SubSeq(name, 1, Len(name) - 3) ELSE name

\* positionals.slice(k) with k counted from 1: a list of the strings as given
Slice(list, k) ==
    VList([n \in 1..(Len(list) - k + 1) |-> VStr(list[k + n - 1])])

\* declared argument names
ArgNames == {"src", "dst", "src...", "rest...", "_positionals"}

\* the tokens left after routing
InputTokens == {"x", "5"}

\* the flags handed to buildInput
FlagMaps ==
    { EmptyFlags,
      Assign(Assign(EmptyFlags, "src", VStr("f")), "rest", VBool(TRUE)),
      Assign(Assign(EmptyFlags, "dst", VBool(TRUE)), "_positionals", VStr("f")) }

inputFrame == <<argv, schema, cls, routeVars, walkVars, selectorVars,
                lateVars, flags, positionals, argDefs>>

\* findHandler: a missing handler ends the run
RunFindHandler ==
    /\ pc = "find"
    /\ \E found \in BOOLEAN : pc' = IF found THEN "build" ELSE "exit"
    /\ UNCHANGED <<inputFrame, i, input, calls>>

\* const input = { ...flags }
BuildCopy ==
    /\ pc = "build"
    /\ input' = flags
    /\ i' = 1
    /\ pc' = "args"
    /\ UNCHANGED <<inputFrame, calls>>

\* an ordinary argument whose token, when supplied, leaves the flag's value
BuildArgFlagWins ==
    /\ pc = "args"
    /\ i <= Len(argDefs)
    /\ ~isVariadic(argDefs[i])
    /\ input' = IF i <= Len(positionals)
                   /\ normalizeArgName(argDefs[i]) \notin DOMAIN input
                THEN Assign(input, normalizeArgName(argDefs[i]),
                            VStr(positionals[i]))
                ELSE input
    /\ i' = i + 1
    /\ UNCHANGED <<inputFrame, pc, calls>>

\* loop body, ordinary argument
BuildArg ==
    /\ pc = "args"
    /\ i <= Len(argDefs)
    /\ ~isVariadic(argDefs[i])
    /\ input' = IF i <= Len(positionals)
                THEN Assign(input, normalizeArgName(argDefs[i]),
                            VStr(positionals[i]))
                ELSE input
    /\ i' = i + 1
    /\ UNCHANGED <<inputFrame, pc, calls>>

\* a misplaced variadic argument taken as if it were last
BuildVariadicAnywhere ==
    /\ pc = "args"
    /\ i <= Len(argDefs)
    /\ isVariadic(argDefs[i])
    /\ i # Len(argDefs)
    /\ input' = Assign(input, normalizeArgName(argDefs[i]),
                       Slice(positionals, i))
    /\ pc' = "validate"
    /\ UNCHANGED <<inputFrame, i, calls>>

\* loop body, variadic argument that is not last: process.exit(1)
BuildVariadicNotLast ==
    /\ pc = "args"
    /\ i <= Len(argDefs)
    /\ isVariadic(argDefs[i])
    /\ i # Len(argDefs)
    /\ pc' = "exit"
    /\ UNCHANGED <<inputFrame, i, input, calls>>

\* loop body, variadic last argument: return input
BuildVariadic ==
    /\ pc = "args"
    /\ i <= Len(argDefs)
    /\ isVariadic(argDefs[i])
    /\ i = Len(argDefs)
    /\ input' = Assign(input, normalizeArgName(argDefs[i]),
                       Slice(positionals, i))
    /\ pc' = "validate"
    /\ UNCHANGED <<inputFrame, i, calls>>

\* the tokens beyond the declared arguments left out
BuildOverflowDrops ==
    /\ pc = "args"
    /\ i > Len(argDefs)
    /\ pc' = "validate"
    /\ UNCHANGED <<inputFrame, i, input, calls>>

\* after the loop: input._positionals, return input
BuildOverflow ==
    /\ pc = "args"
    /\ i > Len(argDefs)
    /\ input' = IF Len(positionals) > Len(argDefs)
                THEN Assign(input, "_positionals",
                            Slice(positionals, Len(argDefs) + 1))
                ELSE input
    /\ pc' = "validate"
    /\ UNCHANGED <<inputFrame, i, calls>>

\* validation issues reported but the run going on
RunValidateKeepsGoing ==
    /\ pc = "validate"
    /\ \E outcome \in {"no schema", "value", "issues"} :
          /\ calls' = IF outcome = "no schema" THEN calls
                      ELSE IF outcome = "issues"
                      THEN Append(calls, "validate: issues")
                      ELSE Append(calls, "validate")
          /\ pc' = "globals"
    /\ UNCHANGED <<inputFrame, i, input>>

\* commandDef.input['~standard'].validate(input): issues end the run
RunValidate ==
    /\ pc = "validate"
    /\ \E outcome \in {"no schema", "value", "issues"} :
          /\ calls' = IF outcome = "no schema" THEN calls
                      ELSE IF outcome = "issues"
                      THEN Append(calls, "validate: issues")
                      ELSE Append(calls, "validate")
          /\ pc' = IF outcome = "issues" THEN "exit" ELSE "globals"
    /\ UNCHANGED <<inputFrame, i, input>>

\* this.options.globals['~standard'].validate(flagsWithoutInput)
RunGlobals ==
    /\ pc = "globals"
    /\ \E outcome \in {"no schema", "value", "issues"} :
          /\ calls' = IF outcome = "no schema" THEN calls
                      ELSE IF outcome = "issues"
                      THEN Append(calls, "globals: issues")
                      ELSE Append(calls, "globals")
          /\ pc' = IF outcome = "issues" THEN "exit" ELSE "handle"
    /\ UNCHANGED <<inputFrame, i, input>>

\* context = await this.options.context(globals), then await handler({
\* input, context, meta }): an error thrown by either ends the run
RunHandler ==
    /\ pc = "handle"
    /\ \E outcome \in {"context threw", "handler threw", "returned"} :
          /\ calls' = IF outcome = "context threw" THEN calls
                      ELSE Append(calls, "handler")
          /\ pc' = IF outcome = "returned" THEN "done" ELSE "exit"
    /\ UNCHANGED <<inputFrame, i, input>>

InitInput ==
    /\ argDefs \in SeqsUpTo(ArgNames, MaxArgs)
    /\ positionals \in SeqsUpTo(InputTokens, MaxLen)
    /\ flags \in FlagMaps
    /\ pc = "find"
    /\ i = 1
    /\ input = EmptyFlags
    /\ calls = <<>>
    /\ argv = <<>>
    /\ schema = TreeC
    /\ cls = <<>>
    /\ ri = 1
    /\ current = TreeC
    /\ commandPath = <<>>
    /\ result = Null
    /\ tested = {}
    /\ wi = 1
    /\ wcurrent = TreeC
    /\ skipped = {}
    /\ selector = ""
    /\ written = Null
    /\ steps = <<>>
    /\ thrown = Null
    /\ matches = <<>>
    /\ depth = 0
    /\ subset = Null
    /\ LateIdle

NextInput ==
    \/ RunFindHandler
    \/ BuildCopy
    \/ BuildArg
    \/ BuildVariadicNotLast
    \/ BuildVariadic
    \/ BuildOverflow
    \/ RunValidate
    \/ RunGlobals
    \/ RunHandler

SpecInput == InitInput /\ [][NextInput]_vars

-----------------------------------------------------------------------------
(* Properties of the input builder *)

\* buildInput has returned the candidate input
Built == pc \in {"validate", "globals", "handle", "done"}

Holds(obj, key, value) == key \in DOMAIN obj /\ obj[key] = value

LastIsVariadic == argDefs # <<>> /\ isVariadic(argDefs[Len(argDefs)])

\* tokens are stored under the declared arguments, the variadic last
\* argument takes the rest and produces no overflow key, and otherwise the
\* tokens beyond the declared arguments go to `_positionals`
C11_AllStored ==
    /\ \A k \in 1..Len(argDefs) :
          (~isVariadic(argDefs[k]) /\ k <= Len(positionals)) =>
              Holds(input, argDefs[k], VStr(positionals[k]))
    /\ LastIsVariadic =>
          /\ Holds(input, normalizeArgName(argDefs[Len(argDefs)]),
                   Slice(positionals, Len(argDefs)))
          /\ "_positionals" \in DOMAIN input =>
                Holds(flags, "_positionals", input["_positionals"])
    /\ (~LastIsVariadic /\ Len(positionals) > Len(argDefs)) =>
          Holds(input, "_positionals", Slice(positionals, Len(argDefs) + 1))

C11_DistinctDeclared ==
    \A j, k \in 1..Len(argDefs) : j # k => argDefs[j] # argDefs[k]

\* C11 as stated: given distinct declared argument names, no positional
\* token is dropped: token i is stored under the i-th declared non-variadic
\* argument, a variadic last argument receives the list of the tokens from
\* its index onward and no overflow key is produced, and otherwise the tokens
\* beyond the declared arguments are stored in order under `_positionals`.
C11_NoPositionalDropped ==
    (Built /\ C11_DistinctDeclared) => C11_AllStored

C11_DistinctNormalized ==
    /\ \A j, k \in 1..Len(argDefs) :
          j # k => normalizeArgName(argDefs[j]) # normalizeArgName(argDefs[k])
    /\ \A k \in 1..Len(argDefs) : normalizeArgName(argDefs[k]) # "_positionals"

\* C11, amended: given declared argument names that are pairwise distinct
\* once the variadic marker is removed and none of which is `_positionals`,
\* no positional token is dropped: token i is stored under the i-th declared
\* non-variadic argument, a variadic last argument receives the list of the
\* tokens from its index onward and no overflow key is produced, and
\* otherwise the tokens beyond the declared arguments are stored in order
\* under `_positionals`.
C11_NoPositionalDroppedDistinctKeys ==
    (Built /\ C11_DistinctNormalized) => C11_AllStored

\* `<src> <rest...>` with x 5 x: src = "x", rest = ["5", "x"]
C11_Witness ==
    /\ Built
    /\ argDefs = <<"src", "rest...">>
    /\ positionals = <<"x", "5", "x">>
    /\ flags = EmptyFlags
    /\ input["src"] = VStr("x")
    /\ input["rest"] = VList(<<VStr("5"), VStr("x")>>)
    /\ DOMAIN input = {"src", "rest"}

\* the values the positional assignments write under a name
C12_PositionalValues(name) ==
    {VStr(positionals[k]) :
        k \in {n \in 1..Len(argDefs) :
                  /\ normalizeArgName(argDefs[n]) = name
                  /\ ~isVariadic(argDefs[n])
                  /\ n <= Len(positionals)}}
    \cup {Slice(positionals, k) :
        k \in {n \in 1..Len(argDefs) :
                  /\ normalizeArgName(argDefs[n]) = name
                  /\ isVariadic(argDefs[n])}}
    \cup {Slice(positionals, Len(argDefs) + 1) :
        k \in {n \in {1} : name = "_positionals"}}

C12_PositionalWins ==
    Built =>
        \A k \in 1..Len(argDefs) :
            (normalizeArgName(argDefs[k]) \in DOMAIN flags
                /\ k <= Len(positionals)) =>
                /\ normalizeArgName(argDefs[k]) \in DOMAIN input
                /\ input[normalizeArgName(argDefs[k])]
                      \in C12_PositionalValues(normalizeArgName(argDefs[k]))

\* C12: when a flag and a declared positional argument share a name and a
\* token is supplied for the argument, the candidate input holds the
\* positional value under that name, and the flags mapping passed in is
\* never changed.
C12_PositionalOverridesFlag ==
    []C12_PositionalWins /\ [][flags' = flags]_vars

\* flag src = "f" and `<src>` with token x: input.src = "x", flags.src = "f"
C12_Witness ==
    /\ Built
    /\ argDefs = <<"src">>
    /\ positionals = <<"x">>
    /\ flags["src"] = VStr("f")
    /\ input["src"] = VStr("x")

C13_Misplaced ==
    \E k \in 1..(Len(argDefs) - 1) : isVariadic(argDefs[k])

C13_FirstVariadic ==
    CHOOSE k \in 1..Len(argDefs) :
        isVariadic(argDefs[k]) /\ \A j \in 1..(k - 1) : ~isVariadic(argDefs[j])

C13_NeverBuilt ==
    C13_Misplaced =>
        /\ ~Built
        /\ calls = <<>>
        /\ pc \in {"find", "build", "args", "exit"}
        /\ pc = "args" => i <= C13_FirstVariadic

C13_ExitAtVariadic ==
    (C13_Misplaced /\ pc = "args" /\ i = C13_FirstVariadic) => pc' = "exit"

-----------------------------------------------------------------------------
(* Schema selector: parseSchemaSelector *)

\* SelectorStep
KeyStep(name) == <<"key", name>>
WildcardStep == <<"wildcard">>
SetStep(names) == <<"set", names>>
RecursiveStep == <<"recursive">>

IdentChars == LowerLetters \o UpperLetters \o Digits \o "_-"

\* charAt(input, i), positions counted from 1
charAt(inp, k) == IF k <= Len(inp) THEN SubSeq(inp, k, k) ELSE ""

\* every character taken for an identifier character
IDENT_RE_AnyChar(ch) == ch # ""

\* IDENT_RE.test(ch)
IDENT_RE(ch) == ch # "" /\ IndexOf(IdentChars, ch) # 0

RECURSIVE skipSpaces(_, _)
skipSpaces(inp, k) ==
    IF k <= Len(inp) /\ charAt(inp, k) = " " THEN skipSpaces(inp, k + 1) ELSE k

\* while (i < input.length && IDENT_RE.test(charAt(input, i))) i += 1
RECURSIVE SkipIdent(_, _)
SkipIdent(inp, k) ==
    IF k <= Len(inp) /\ IDENT_RE(charAt(inp, k)) THEN SkipIdent(inp, k + 1)
    ELSE k

Throw(message) == [ok |-> FALSE, error |-> message]

\* names written first come last
PushNameFront(names, name) == <<name>> \o names

\* names.push(name)
PushName(names, name) == Append(names, name)

\* the loop reading the names of a set, from position k
RECURSIVE ParseSetNames(_, _, _)
ParseSetNames(inp, k, names) ==
    IF k > Len(inp)
    THEN IF names = <<>> THEN Throw("Selector set cannot be empty")
         ELSE [ok |-> TRUE, step |-> SetStep(names), nextIndex |-> k]
    ELSE LET e == SkipIdent(inp, k)
             pushed == PushName(names, SubSeq(inp, k, e - 1))
             after == skipSpaces(inp, e)
         IN  IF e = k THEN Throw("Expected identifier")
             ELSE IF charAt(inp, after) = ","
             THEN ParseSetNames(inp, skipSpaces(inp, after + 1), pushed)
             ELSE IF charAt(inp, after) = "}"
             THEN [ok |-> TRUE, step |-> SetStep(pushed),
                   nextIndex |-> after + 1]
             ELSE Throw("Expected \",\" or \"}\"")

parseSegment(inp, start) ==
    LET ch == charAt(inp, start) IN
    IF ch = "*"
    THEN [ok |-> TRUE, step |-> WildcardStep, nextIndex |-> start + 1]
    ELSE IF ch = "{"
    THEN IF charAt(inp, skipSpaces(inp, start + 1)) = "}"
         THEN Throw("Selector set cannot be empty")
         ELSE ParseSetNames(inp, skipSpaces(inp, start + 1), <<>>)
    ELSE IF ~IDENT_RE(ch)
    THEN Throw("Expected identifier")
    ELSE [ok |-> TRUE,
          step |-> KeyStep(SubSeq(inp, start, SkipIdent(inp, start + 1) - 1)),
          nextIndex |-> SkipIdent(inp, start + 1)]

\* the main loop of parseSchemaSelector, from position k
RECURSIVE ParseLoop(_, _, _)
ParseLoop(inp, k, st) ==
    IF k > Len(inp) THEN [ok |-> TRUE, steps |-> st]
    ELSE IF charAt(inp, k) # "." THEN Throw("Unexpected character")
    ELSE IF charAt(inp, k + 1) = "."
    THEN LET rec == Append(st, RecursiveStep) IN
         IF k + 2 > Len(inp) THEN [ok |-> TRUE, steps |-> rec]
         ELSE IF charAt(inp, k + 2) = "." THEN ParseLoop(inp, k + 2, rec)
         ELSE LET parsed == parseSegment(inp, k + 2) IN
              IF parsed.ok
              THEN ParseLoop(inp, parsed.nextIndex, Append(rec, parsed.step))
              ELSE parsed
    ELSE IF k + 1 > Len(inp)
    THEN IF Len(inp) = 1 /\ st = <<>> THEN [ok |-> TRUE, steps |-> st]
         ELSE Throw("Expected identifier")
    ELSE LET parsed == parseSegment(inp, k + 1) IN
         IF parsed.ok
         THEN ParseLoop(inp, parsed.nextIndex, Append(st, parsed.step))
         ELSE parsed

parseSchemaSelector(inp) ==
    IF inp = "" THEN Throw("Selector is empty")
    ELSE IF charAt(inp, 1) # "." THEN Throw("Selector must start with \".\"")
    ELSE ParseLoop(inp, 1, <<>>)

-----------------------------------------------------------------------------
(* Schema selector: trees with metadata, matchSchemaSelector *)

\* GroupMeta / CommandMeta: a map from `description`, `hidden` to values
NoMeta == [k \in {} |-> ""]
Described(text) == [k \in {"description"} |-> text]
DescribedHidden(text) ==
    [k \in {"description", "hidden"} |-> IF k = "hidden" THEN "true" ELSE text]

\* c.meta(meta)
command(id, meta) ==
    [id |-> id, kind |-> "command", aliases |-> <<>>, keys |-> <<>>,
     kids |-> <<>>, meta |-> meta]

\* group(meta, children)
group(id, meta, keys, kids) ==
    [id |-> id, kind |-> "group", aliases |-> <<>>, keys |-> keys,
     kids |-> kids, meta |-> meta]

\* a plain object of routers: no metadata of its own
plain(id, keys, kids) ==
    [id |-> id, kind |-> "plain", aliases |-> <<>>, keys |-> keys,
     kids |-> kids, meta |-> NoMeta]

\* Command: null; Group: its children; plain object: itself
getChildren(router) ==
    IF isCommand(router) THEN Null
    ELSE Some([keys |-> router.keys, kids |-> router.kids])

\* { user: group(.., { list, create }), config: group(.., { create, get }),
\*   deploy: group(.., { aws: group(.., { lambda }), vercel }) }
SelTreeA ==
    plain("", <<"user", "config", "deploy">>,
      << group("user", Described("User management"), <<"list", "create">>,
               << command("user.list", NoMeta),
                  command("user.create", NoMeta) >>),
         group("config", Described("Config"), <<"create", "get">>,
               << command("config.create", NoMeta),
                  command("config.get", NoMeta) >>),
         group("deploy", Described("Deploy"), <<"aws", "vercel">>,
               << group("deploy.aws", Described("AWS"), <<"lambda">>,
                        << command("deploy.aws.lambda", NoMeta) >>),
                  command("deploy.vercel", NoMeta) >>) >>)

\* group({ description: 'Root' }, { deploy: { create, aws: group({hidden},
\*   { lambda }) }, user: group(.., { create, config: {} }), create })
SelTreeB ==
    group("", Described("Root"), <<"deploy", "user", "create">>,
      << plain("deploy", <<"create", "aws">>,
               << command("deploy.create", Described("Create")),
                  group("deploy.aws", DescribedHidden("AWS"), <<"lambda">>,
                        << command("deploy.aws.lambda", NoMeta) >>) >>),
         group("user", Described("Users"), <<"create", "config">>,
               << command("user.create", NoMeta),
                  plain("user.config", <<>>, <<>>) >>),
         command("create", NoMeta) >>)

SelTrees == {SelTreeA, SelTreeB}

\* SelectorMatch
Match(path, node) == [path |-> path, node |-> node]

RECURSIVE Flatten(_)
Flatten(lists) ==
    IF lists = <<>> THEN <<>> ELSE Head(lists) \o Flatten(Tail(lists))

\* children[name] is set
HasChild(node, name) ==
    getChildren(node) # Null /\ HasKey(getChildren(node)[1], name)

\* what one key step pushes for one match
MatchKeyOf(match, name) ==
    IF HasChild(match.node, name)
    THEN << Match(Append(match.path, name),
                  Child(getChildren(match.node)[1], name)) >>
    ELSE <<>>

\* what one wildcard step pushes for one match: Object.entries(children)
MatchWildcardOf(match) ==
    IF getChildren(match.node) = Null THEN <<>>
    ELSE [k \in 1..Len(match.node.keys) |->
             Match(Append(match.path, match.node.keys[k]), match.node.kids[k])]

\* match and its children, no deeper
collectDescendantsOneLevel(match) == <<match>> \o MatchWildcardOf(match)

\* match, then the descendants of each child in declared order
RECURSIVE collectDescendants(_)
collectDescendants(match) ==
    <<match>> \o
    (IF getChildren(match.node) = Null THEN <<>>
     ELSE Flatten([k \in 1..Len(match.node.keys) |->
             collectDescendants(Match(Append(match.path, match.node.keys[k]),
                                      match.node.kids[k]))]))

\* the named children taken in declared child order
MatchSetDeclaredOrder(match, names) ==
    IF getChildren(match.node) = Null THEN <<>>
    ELSE Flatten([k \in 1..Len(match.node.keys) |->
             IF Includes(names, match.node.keys[k])
             THEN MatchKeyOf(match, match.node.keys[k]) ELSE <<>>])

\* what one set step pushes for one match: for (const name of step.names)
MatchSetOf(match, names) ==
    Flatten([k \in 1..Len(names) |-> MatchKeyOf(match, names[k])])

-----------------------------------------------------------------------------
(* Schema selector: buildSchemaSubset *)

\* {}
EmptyObject(id) == plain(id, <<>>, <<>>)

\* every level kept, whatever the depth
sliceRouterWhole(router, d) == router

RECURSIVE sliceRouter(_, _)
sliceRouter(router, d) ==
    IF isCommand(router) THEN router
    ELSE IF isGroup(router)
    THEN IF d <= 0 THEN group(router.id, router.meta, <<>>, <<>>)
         ELSE group(router.id, router.meta, router.keys,
                    [k \in 1..Len(router.kids) |->
                        sliceRouter(router.kids[k], d - 1)])
    ELSE IF d <= 0 THEN EmptyObject(router.id)
         ELSE plain(router.id, router.keys,
                    [k \in 1..Len(router.kids) |->
                        sliceRouter(router.kids[k], d - 1)])

\* parent[name] = child: an existing key keeps its place, a new one is last
SetChild(parent, name, child) ==
    IF \E k \in 1..Len(parent.keys) : parent.keys[k] = name
    THEN [parent EXCEPT !.kids = [k \in 1..Len(parent.kids) |->
                                     IF parent.keys[k] = name THEN child
                                     ELSE parent.kids[k]]]
    ELSE [parent EXCEPT !.keys = Append(@, name), !.kids = Append(@, child)]

\* the node of the output under `name`: the existing one, or one created
\* after the original (a Group with its metadata and no children, the
\* Command itself, or {})
ensureOutputNode(parent, name, originalNode) ==
    IF \E k \in 1..Len(parent.keys) : parent.keys[k] = name
    THEN parent.kids[CHOOSE k \in 1..Len(parent.keys) : parent.keys[k] = name]
    ELSE IF isGroup(originalNode)
    THEN group(originalNode.id, originalNode.meta, <<>>, <<>>)
    ELSE IF isCommand(originalNode) THEN originalNode
    ELSE EmptyObject(originalNode.id)

\* insertPath from currentOrig / currentOut on: the output node afterwards
RECURSIVE insertPath(_, _, _, _)
insertPath(currentOrig, currentOut, path, d) ==
    IF path = <<>> THEN currentOut
    ELSE IF ~HasChild(currentOrig, Head(path)) THEN currentOut
    ELSE LET name == Head(path)
             origNode == Child(getChildren(currentOrig)[1], name)
             nextOut == ensureOutputNode(currentOut, name, origNode)
         IN  IF Len(path) = 1
             THEN SetChild(currentOut, name, sliceRouter(origNode, d))
             ELSE IF getChildren(nextOut) = Null
             THEN SetChild(currentOut, name, nextOut)
             ELSE SetChild(currentOut, name,
                           insertPath(origNode, nextOut, Tail(path), d))

\* matches.some((match) => match.path.length === 0)
SomeRootMatch(list) == \E k \in 1..Len(list) : list[k].path = <<>>

-----------------------------------------------------------------------------
(* Schema selector: inputs and steps of --schema=<selector> *)

MaxSteps == 3
MaxPieces == 4

RECURSIVE ConcatStrings(_)
ConcatStrings(strs) ==
    IF strs = <<>> THEN "" ELSE Head(strs) \o ConcatStrings(Tail(strs))

RECURSIVE JoinNames(_)
JoinNames(names) ==
    IF Len(names) = 1 THEN names[1]
    ELSE names[1] \o "," \o JoinNames(Tail(names))

\* a segment as it is written: name, `*`, `{a,b}`
SegmentText(step) ==
    IF step[1] = "key" THEN step[2]
    ELSE IF step[1] = "wildcard" THEN "*"
    ELSE "{" \o JoinNames(step[2]) \o "}"

\* `.` or `..` and the segment written after it, if any
Item(dots, segment) == [dots |-> dots, segment |-> segment]

ItemText(item) ==
    item.dots \o
    (IF item.segment = Null THEN "" ELSE SegmentText(item.segment[1]))

SelectorItems ==
    { Item(".", Some(KeyStep("user"))),
      Item(".", Some(KeyStep("deploy"))),
      Item(".", Some(KeyStep("create"))),
      Item(".", Some(WildcardStep)),
      Item(".", Some(SetStep(<<"config", "user">>))),
      Item("..", Null),
      Item("..", Some(KeyStep("create"))),
      Item("..", Some(WildcardStep)) }

\* a selector written segment by segment; no segment is the root selector
SelectorText(items) ==
    IF items = <<>> THEN "."
    ELSE ConcatStrings([k \in 1..Len(items) |-> ItemText(items[k])])

RawPieces == {".", "user", "*", "{", "}", ",", " ", "!"}

\* arbitrary strings over the selector alphabet, the empty string included
RawSelectors ==
    {ConcatStrings(pieces) : pieces \in SeqsUpTo(RawPieces, MaxPieces)}

\* --schema output depth: 1, 2 for the outline; 0 keeps the node alone
Depths == {0, 1, 2}

selectorFrame == <<argv, cls, routeVars, walkVars, inputVars, lateVars,
                   flags, positionals, schema, selector, written>>

\* parseSchemaSelector throws
SelectThrow ==
    /\ pc = "select"
    /\ ~parseSchemaSelector(selector).ok
    /\ thrown' = Some(parseSchemaSelector(selector).error)
    /\ pc' = "done"
    /\ UNCHANGED <<selectorFrame, i, steps, matches, depth, subset>>

\* parseSchemaSelector returns steps
SelectReturn ==
    /\ pc = "select"
    /\ parseSchemaSelector(selector).ok
    /\ steps' = parseSchemaSelector(selector).steps
    /\ pc' = "match"
    /\ UNCHANGED <<selectorFrame, i, thrown, matches, depth, subset>>

\* let current = [{ path: [], node: schema }]
MatchStart ==
    /\ pc = "match"
    /\ matches' = << Match(<<>>, schema) >>
    /\ i' = 1
    /\ pc' = "steps"
    /\ UNCHANGED <<selectorFrame, steps, thrown, depth, subset>>

AtStep(type) == pc = "steps" /\ i <= Len(steps) /\ steps[i][1] = type

MatchRecursive ==
    /\ AtStep("recursive")
    /\ matches' = Flatten([k \in 1..Len(matches) |->
                              collectDescendants(matches[k])])
    /\ i' = i + 1
    /\ UNCHANGED <<selectorFrame, pc, steps, thrown, depth, subset>>

MatchKey ==
    /\ AtStep("key")
    /\ matches' = Flatten([k \in 1..Len(matches) |->
                              MatchKeyOf(matches[k], steps[i][2])])
    /\ i' = i + 1
    /\ UNCHANGED <<selectorFrame, pc, steps, thrown, depth, subset>>

MatchWildcard ==
    /\ AtStep("wildcard")
    /\ matches' = Flatten([k \in 1..Len(matches) |->
                              MatchWildcardOf(matches[k])])
    /\ i' = i + 1
    /\ UNCHANGED <<selectorFrame, pc, steps, thrown, depth, subset>>

MatchSet ==
    /\ AtStep("set")
    /\ matches' = Flatten([k \in 1..Len(matches) |->
                              MatchSetOf(matches[k], steps[i][2])])
    /\ i' = i + 1
    /\ UNCHANGED <<selectorFrame, pc, steps, thrown, depth, subset>>

\* return current
MatchReturn ==
    /\ pc = "steps"
    /\ i > Len(steps)
    /\ pc' = "subset"
    /\ UNCHANGED <<selectorFrame, i, steps, thrown, matches, depth, subset>>

\* buildSchemaSubset: if (matches.length === 0) return {}
SubsetEmpty ==
    /\ pc = "subset"
    /\ matches = <<>>
    /\ \E d \in Depths : depth' = d
    /\ subset' = Some(EmptyObject(""))
    /\ pc' = "done"
    /\ UNCHANGED <<selectorFrame, i, steps, thrown, matches>>

\* buildSchemaSubset: a match with the empty path: sliceRouter(schema, depth)
SubsetRoot ==
    /\ pc = "subset"
    /\ matches # <<>>
    /\ SomeRootMatch(matches)
    /\ \E d \in Depths :
          /\ depth' = d
          /\ subset' = Some(sliceRouter(schema, d))
    /\ pc' = "done"
    /\ UNCHANGED <<selectorFrame, i, steps, thrown, matches>>

\* buildSchemaSubset: const root = {}
SubsetStart ==
    /\ pc = "subset"
    /\ matches # <<>>
    /\ ~SomeRootMatch(matches)
    /\ \E d \in Depths : depth' = d
    /\ subset' = Some(EmptyObject(""))
    /\ i' = 1
    /\ pc' = "insert"
    /\ UNCHANGED <<selectorFrame, steps, thrown, matches>>

\* buildSchemaSubset: insertPath(schema, root, match.path, depth)
SubsetInsert ==
    /\ pc = "insert"
    /\ i <= Len(matches)
    /\ subset' = Some(insertPath(schema, subset[1], matches[i].path, depth))
    /\ i' = i + 1
    /\ UNCHANGED <<selectorFrame, pc, steps, thrown, matches, depth>>

\* buildSchemaSubset: return root
SubsetReturn ==
    /\ pc = "insert"
    /\ i > Len(matches)
    /\ pc' = "done"
    /\ UNCHANGED <<selectorFrame, i, steps, thrown, matches, depth, subset>>

InitSelector ==
    /\ \/ /\ written \in {Some(items) :
                              items \in SeqsUpTo(SelectorItems, MaxSteps)}
          /\ selector = SelectorText(written[1])
       \/ /\ written = Null
          /\ selector \in RawSelectors
    /\ schema \in SelTrees
    /\ pc = "select"
    /\ i = 1
    /\ steps = <<>>
    /\ thrown = Null
    /\ matches = <<>>
    /\ depth = 0
    /\ subset = Null
    /\ argv = <<>>
    /\ flags = EmptyFlags
    /\ positionals = <<>>
    /\ cls = <<>>
    /\ ri = 1
    /\ current = schema
    /\ commandPath = <<>>
    /\ result = Null
    /\ tested = {}
    /\ wi = 1
    /\ wcurrent = schema
    /\ skipped = {}
    /\ argDefs = <<>>
    /\ input = EmptyFlags
    /\ calls = <<>>
    /\ LateIdle

NextSelector ==
    \/ SelectThrow
    \/ SelectReturn
    \/ MatchStart
    \/ MatchRecursive
    \/ MatchKey
    \/ MatchWildcard
    \/ MatchSet
    \/ MatchReturn
    \/ SubsetEmpty
    \/ SubsetRoot
    \/ SubsetStart
    \/ SubsetInsert
    \/ SubsetReturn

SpecSelector == InitSelector /\ [][NextSelector]_vars

-----------------------------------------------------------------------------
(* Properties of parseSchemaSelector *)

\* parseSchemaSelector has thrown and left no step list
Rejected == thrown # Null /\ steps = <<>> /\ matches = <<>> /\ pc = "done"

\* parseSchemaSelector has returned
Selected == pc # "select" /\ thrown = Null

RECURSIVE TrailingDots(_)
TrailingDots(s) ==
    IF s = "" \/ charAt(s, Len(s)) # "." THEN 0
    ELSE 1 + TrailingDots(SubSeq(s, 1, Len(s) - 1))

Contains(s, part) ==
    \E k \in 1..(Len(s) - Len(part) + 1) : SubSeq(s, k, k + Len(part) - 1) = part

C14_Empty == selector = ""

C14_NoLeadingDot == selector # "" /\ charAt(selector, 1) # "."

\* the dots at the end pair up into `..` except for one, which is not the
\* whole selector
C14_TrailingDot == Len(selector) >= 2 /\ TrailingDots(selector) % 2 = 1

C14_EmptySet == Contains(selector, "{}")

\* a letter, a digit, `_` or `-`
C14_IdentifierChar(ch) ==
    ch # "" /\ IndexOf(LowerLetters \o UpperLetters \o Digits \o "_-", ch) # 0

C14_SegmentStart(ch) == C14_IdentifierChar(ch) \/ ch = "*" \/ ch = "{"

\* after well-formed segments and a `.` or `..` comes a character that
\* starts no segment (a further `.` starts the next separator)
C14_BadSegment ==
    \E items \in SeqsUpTo(SelectorItems, 2) : \E dots \in {".", ".."} :
        LET before == (IF items = <<>> THEN "" ELSE SelectorText(items)) \o dots
            ch == charAt(selector, Len(before) + 1)
        IN  /\ StartsWith(selector, before)
            /\ ch # ""
            /\ ch # "."
            /\ ~C14_SegmentStart(ch)

\* C14: parseSchemaSelector throws and produces no step list for the empty
\* string, a selector that does not start with `.`, a selector ending in a
\* single `.` after at least one step, a selector with an empty set `{}`,
\* and a selector with a character other than an identifier character, `*`
\* or `{` where a segment is expected.
C14_RejectsMalformed ==
    /\ thrown # Null => Rejected
    /\ (pc \in {"match", "done"}
        /\ (C14_Empty \/ C14_NoLeadingDot \/ C14_TrailingDot \/ C14_EmptySet
            \/ C14_BadSegment)) => Rejected

\* `.user.`: Expected identifier
C14_Witness ==
    /\ selector = ".user."
    /\ C14_TrailingDot
    /\ thrown = Some("Expected identifier")
    /\ Rejected

\* the steps the written segments stand for, left to right
C15_StepsOf(items) ==
    Flatten([k \in 1..Len(items) |->
        (IF items[k].dots = ".." THEN <<RecursiveStep>> ELSE <<>>)
        \o (IF items[k].segment = Null THEN <<>> ELSE items[k].segment)])

\* C15: a well-formed selector parses to one step per segment in
\* left-to-right order: an identifier to key(name), `*` to wildcard, `{a,b}`
\* to set with the names in written order, `..` to a recursive step followed
\* by the step of the segment written right after it, `.` alone to the empty
\* list and `..` alone to [recursive].
C15_StepPerSegment ==
    /\ (written # Null /\ pc # "select") =>
          /\ Selected
          /\ steps = C15_StepsOf(written[1])
    /\ (selector = "." /\ pc # "select") => (Selected /\ steps = <<>>)
    /\ (selector = ".." /\ pc # "select") =>
          (Selected /\ steps = <<RecursiveStep>>)

\* `.deploy..*.{config,user}`: key, recursive, wildcard, set
C15_Witness ==
    /\ selector = ".deploy..*.{config,user}"
    /\ Selected
    /\ steps = << KeyStep("deploy"), RecursiveStep, WildcardStep,
                  SetStep(<<"config", "user">>) >>

-----------------------------------------------------------------------------
(* Properties of matchSchemaSelector *)

\* matchSchemaSelector has returned
Matched == pc \in {"subset", "insert", "done"} /\ thrown = Null

PathsOf(list) == [k \in 1..Len(list) |-> list[k].path]

\* the child names of a node in declared order; a Command has none
C16_ChildNames(node) == IF node.kind = "command" THEN <<>> ELSE node.keys

\* the names a step asks for at a node
C16_Asked(step, node) ==
    IF step[1] = "key" THEN <<step[2]>>
    ELSE IF step[1] = "wildcard" THEN C16_ChildNames(node)
    ELSE step[2]

\* the asked names that are children of the match's node, each giving the
\* child with the path extended by the name
C16_Expand(match, step) ==
    LET IsChild(name) == Includes(C16_ChildNames(match.node), name)
        found == SelectSeq(C16_Asked(step, match.node), IsChild)
    IN  [k \in 1..Len(found) |->
            [path |-> Append(match.path, found[k]),
             node |-> match.node.kids[
                 CHOOSE n \in 1..Len(match.node.keys) :
                     match.node.keys[n] = found[k]]]]

C16_Step ==
    /\ (pc = "match" /\ pc' = "steps") =>
          /\ matches' = <<[path |-> <<>>, node |-> schema]>>
          /\ i' = 1
    /\ (pc = "steps" /\ i <= Len(steps)) =>
          /\ i' = i + 1
          /\ pc' = "steps"
          /\ thrown' = Null
          /\ steps[i][1] \in {"key", "wildcard", "set"} =>
                matches' = Flatten([k \in 1..Len(matches) |->
                                       C16_Expand(matches[k], steps[i])])
    /\ (pc = "steps" /\ i > Len(steps)) => (matches' = matches /\ thrown' = Null)

\* C16: matching starts from the singleton root match and takes the steps
\* left to right; key(name) keeps for each match the child of that name,
\* wildcard expands each match to all its children in declared order,
\* set(names) gives the existing named children in the order written, a
\* Command contributes nothing, and a step matching nothing gives the empty
\* list, not an error.
C16_StepSemantics == [][C16_Step]_vars

\* `.{config,user}`: config before user, against the declared order
C16_Witness ==
    /\ Matched
    /\ schema = SelTreeA
    /\ steps = <<SetStep(<<"config", "user">>)>>
    /\ PathsOf(matches) = << <<"config">>, <<"user">> >>

RECURSIVE AllPaths(_)
AllPaths(node) ==
    {<<>>} \cup
    UNION {{<<node.keys[k]>> \o p : p \in AllPaths(node.kids[k])} :
              k \in 1..Len(node.keys)}

IsPrefix(p, q) == Len(p) <= Len(q) /\ SubSeq(q, 1, Len(p)) = p

IndexIn(list, x) == CHOOSE k \in 1..Len(list) : list[k] = x

\* p comes before q in pre-order: p is a proper prefix of q, or where they
\* first differ p takes the child declared earlier
C17_Before(tree, p, q) ==
    \/ IsPrefix(p, q) /\ p # q
    \/ \E j \in 1..Len(p) :
          /\ j <= Len(q)
          /\ SubSeq(p, 1, j - 1) = SubSeq(q, 1, j - 1)
          /\ p[j] # q[j]
          /\ IndexIn(NodeAt(tree, SubSeq(p, 1, j - 1)).keys, p[j])
                < IndexIn(NodeAt(tree, SubSeq(p, 1, j - 1)).keys, q[j])

\* C17: `..` enumerates every node of the tree exactly once, the root first,
\* in pre-order following declared child order, and `.deploy..` gives
\* deploy followed by its descendants in that order.
C17_RecursiveDescent ==
    /\ (Matched /\ selector = "..") =>
          /\ {matches[k].path : k \in 1..Len(matches)} = AllPaths(schema)
          /\ Len(matches) = Cardinality(AllPaths(schema))
          /\ matches[1].path = <<>>
          /\ \A a, b \in 1..Len(matches) :
                a < b => C17_Before(schema, matches[a].path, matches[b].path)
          /\ \A k \in 1..Len(matches) :
                matches[k].node = NodeAt(schema, matches[k].path)
    /\ (Matched /\ selector = ".deploy.." /\ schema = SelTreeA) =>
          PathsOf(matches) = << <<"deploy">>, <<"deploy", "aws">>,
                                <<"deploy", "aws", "lambda">>,
                                <<"deploy", "vercel">> >>

\* `..` over the tree of eleven nodes
C17_Witness ==
    /\ Matched
    /\ selector = ".."
    /\ schema = SelTreeA
    /\ Len(matches) = 11
    /\ matches[1].path = <<>>
    /\ matches[2].path = <<"user">>
    /\ matches[11].path = <<"deploy", "vercel">>

\* C18: the match list holds no two matches with the same path, and every
\* match's node is the node found at its path in the tree.
C18_MatchesDistinct ==
    Matched =>
        /\ \A a, b \in 1..Len(matches) :
              a # b => matches[a].path # matches[b].path
        /\ \A k \in 1..Len(matches) :
              matches[k].node = NodeAt(schema, matches[k].path)

-----------------------------------------------------------------------------
(* Properties of buildSchemaSubset *)

\* buildSchemaSubset has returned
SubsetBuilt == pc = "done" /\ subset # Null

\* C19: for a match list of one path P the subset holds exactly the
\* waypoints leading to P and the nodes at most d levels below P; with d >= 1
\* the node at P keeps its own metadata and its children's names, and with
\* d = 1 every child Group has no children; with d = 0 the node at P keeps
\* its own metadata and has no children; an empty match list gives an empty
\* tree.
C19_SubsetOfOnePath ==
    /\ (SubsetBuilt /\ matches = <<>>) =>
          /\ subset[1].keys = <<>>
          /\ subset[1].kind = "plain"
    /\ (SubsetBuilt /\ Len(matches) = 1) =>
          LET P == matches[1].path
              atP == NodeAt(subset[1], P)
              orig == NodeAt(schema, P)
          IN  /\ AllPaths(subset[1]) =
                    {Q \in AllPaths(schema) :
                        \/ IsPrefix(Q, P)
                        \/ IsPrefix(P, Q) /\ Len(Q) <= Len(P) + depth}
              /\ atP.kind = orig.kind
              /\ atP.meta = orig.meta
              /\ depth >= 1 => atP.keys = orig.keys
              /\ depth = 0 => atP.keys = <<>>
              /\ depth = 1 =>
                    \A k \in 1..Len(orig.kids) :
                        orig.kids[k].kind = "group" =>
                            /\ atP.kids[k].kind = "group"
                            /\ atP.kids[k].meta = orig.kids[k].meta
                            /\ atP.kids[k].keys = <<>>

\* `.deploy` with depth 1: deploy keeps aws and vercel, aws has no children
C19_Witness ==
    /\ SubsetBuilt
    /\ schema = SelTreeA
    /\ selector = ".deploy"
    /\ depth = 1
    /\ subset[1].keys = <<"deploy">>
    /\ NodeAt(subset[1], <<"deploy">>).keys = <<"aws", "vercel">>
    /\ NodeAt(subset[1], <<"deploy">>).meta = Described("Deploy")
    /\ NodeAt(subset[1], <<"deploy", "aws">>).keys = <<>>

\* the nodes of the subset on the way to a match: the prefixes of the match
\* paths, the empty path of the root included
C20_Waypoints ==
    {Q \in AllPaths(subset[1]) :
        \E k \in 1..Len(matches) : IsPrefix(Q, matches[k].path)}

\* C20: every Group on the way to a match, a Group root included, keeps its
\* own metadata in the subset whether it is matched or not, and a plain
\* branch stays a plain branch without metadata.
C20_WaypointMetadata ==
    (SubsetBuilt /\ matches # <<>>) =>
        \A Q \in C20_Waypoints :
            /\ NodeAt(schema, Q).kind = "group" =>
                  /\ NodeAt(subset[1], Q).kind = "group"
                  /\ NodeAt(subset[1], Q).meta = NodeAt(schema, Q).meta
            /\ NodeAt(schema, Q).kind = "plain" =>
                  /\ NodeAt(subset[1], Q).kind = "plain"
                  /\ NodeAt(subset[1], Q).meta = NoMeta

-----------------------------------------------------------------------------
(* The tree and the subsets as objects held by reference *)

\* how many subsets are built one after another on the same tree
MaxSubsets == 2

\* a new object: the heap with it and its reference
New(h, object) == [heap |-> Append(h, object), at |-> Len(h) + 1]

\* the tree as the declaration builds it: each child before its parent, a
\* Group with the children object handed to group(), one object per node
RECURSIVE construct(_, _)
RECURSIVE constructChildren(_, _, _)
constructChildren(h, kids, refs) ==
    IF Len(refs) = Len(kids) THEN [heap |-> h, at |-> refs]
    ELSE LET made == construct(h, kids[Len(refs) + 1])
         IN  constructChildren(made.heap, kids, Append(refs, made.at))

construct(h, node) ==
    LET made == constructChildren(h, node.kids, <<>>)
    IN  New(made.heap, [node EXCEPT !.kids = made.at])

\* this.schema: the reference of the root of the tree
SchemaRef == Len(construct(<<>>, schema).heap)

\* the router read through a reference
RECURSIVE RouterAt(_, _)
RouterAt(h, ref) ==
    [h[ref] EXCEPT !.kids = [k \in 1..Len(h[ref].kids) |->
                                RouterAt(h, h[ref].kids[k])]]

\* matchSchemaSelector: the steps applied in order to the match list
RECURSIVE MatchSteps(_, _)
MatchSteps(list, st) ==
    IF st = <<>> THEN list
    ELSE LET step == Head(st)
             next == Flatten([k \in 1..Len(list) |->
                        IF step[1] = "recursive"
                        THEN collectDescendants(list[k])
                        ELSE IF step[1] = "key"
                        THEN MatchKeyOf(list[k], step[2])
                        ELSE IF step[1] = "wildcard"
                        THEN MatchWildcardOf(list[k])
                        ELSE MatchSetOf(list[k], step[2])])
         IN  MatchSteps(next, Tail(st))

matchSchemaSelector(router, st) == MatchSteps(<< Match(<<>>, router) >>, st)

\* sliceRouter on references: a Command is returned as it is, a Group or a
\* plain object is built anew down to the depth
RECURSIVE sliceRouterAt(_, _, _)
RECURSIVE sliceChildrenAt(_, _, _, _)
sliceChildrenAt(h, kids, d, refs) ==
    IF Len(refs) = Len(kids) THEN [heap |-> h, at |-> refs]
    ELSE LET made == sliceRouterAt(h, kids[Len(refs) + 1], d)
         IN  sliceChildrenAt(made.heap, kids, d, Append(refs, made.at))

sliceRouterAt(h, ref, d) ==
    LET router == h[ref]
        made == sliceChildrenAt(h, router.kids, d - 1, <<>>)
    IN  IF isCommand(router) THEN [heap |-> h, at |-> ref]
        ELSE IF isGroup(router)
        THEN IF d <= 0
             THEN New(h, group(router.id, router.meta, <<>>, <<>>))
             ELSE New(made.heap,
                      group(router.id, router.meta, router.keys, made.at))
        ELSE IF d <= 0 THEN New(h, EmptyObject(router.id))
             ELSE New(made.heap, plain(router.id, router.keys, made.at))

\* parent[name] = child, on the object `parent` refers to
setChildAt(h, parent, name, child) ==
    [h EXCEPT ![parent] = SetChild(@, name, child)]

\* the original node itself under `name`, whatever its kind
ensureOutputNodeShared(h, parent, name, originalNode) ==
    IF HasKey(h[parent], name)
    THEN [heap |-> h, at |-> Child(h[parent], name)]
    ELSE [heap |-> setChildAt(h, parent, name, originalNode),
          at |-> originalNode]

\* ensureOutputNode on references: the existing output node, or one created
\* after the original and stored under `name`
ensureOutputNodeAt(h, parent, name, originalNode) ==
    IF HasKey(h[parent], name)
    THEN [heap |-> h, at |-> Child(h[parent], name)]
    ELSE LET original == h[originalNode]
             created ==
                 IF isGroup(original)
                 THEN New(h, group(original.id, original.meta, <<>>, <<>>))
                 ELSE IF isCommand(original)
                 THEN [heap |-> h, at |-> originalNode]
                 ELSE New(h, EmptyObject(original.id))
         IN  [heap |-> setChildAt(created.heap, parent, name, created.at),
              at |-> created.at]

\* insertPath on references, from currentOrig / currentOut on: the heap
\* afterwards
RECURSIVE insertPathAt(_, _, _, _, _)
insertPathAt(h, currentOrig, currentOut, path, d) ==
    IF path = <<>> THEN h
    ELSE IF isCommand(h[currentOrig]) THEN h
    ELSE IF ~HasKey(h[currentOrig], Head(path)) THEN h
    ELSE LET name == Head(path)
             origNode == Child(h[currentOrig], name)
             sliced == sliceRouterAt(h, origNode, d)
             nextOut == ensureOutputNodeAt(h, currentOut, name, origNode)
         IN  IF Len(path) = 1
             THEN setChildAt(sliced.heap, currentOut, name, sliced.at)
             ELSE IF isCommand(nextOut.heap[nextOut.at]) THEN nextOut.heap
             ELSE insertPathAt(nextOut.heap, origNode, nextOut.at,
                               Tail(path), d)

\* the step lists handed to matchSchemaSelector: the root, one node, a node
\* two levels down, no node, and lists that name a node before its children
HeapSelectors ==
    { <<>>,
      << KeyStep("user") >>,
      << KeyStep("deploy"), KeyStep("aws") >>,
      << KeyStep("missing") >>,
      << RecursiveStep, KeyStep("create") >>,
      << KeyStep("user"), WildcardStep >>,
      << SetStep(<<"user", "deploy">>), RecursiveStep >> }

heapFrame == <<argv, cls, routeVars, walkVars, inputVars, flags, positionals,
               schema, selector, written, thrown, subset, heapOthers>>

\* matchSchemaSelector(schema, steps): reads the tree, writes nothing
HeapMatch ==
    /\ pc = "call"
    /\ Len(returned) < MaxSubsets
    /\ \E st \in HeapSelectors :
          /\ steps' = st
          /\ matches' = matchSchemaSelector(RouterAt(heap, SchemaRef), st)
    /\ pc' = "subset"
    /\ UNCHANGED <<heapFrame, i, depth, heap, root, returned>>

\* buildSchemaSubset: if (matches.length === 0) return {}
HeapSubsetEmpty ==
    /\ pc = "subset"
    /\ matches = <<>>
    /\ \E d \in Depths : depth' = d
    /\ heap' = New(heap, EmptyObject("")).heap
    /\ returned' = Append(returned, New(heap, EmptyObject("")).at)
    /\ pc' = "call"
    /\ UNCHANGED <<heapFrame, i, steps, matches, root>>

\* buildSchemaSubset: a match with the empty path: sliceRouter(schema, depth)
HeapSubsetRoot ==
    /\ pc = "subset"
    /\ matches # <<>>
    /\ SomeRootMatch(matches)
    /\ \E d \in Depths :
          /\ depth' = d
          /\ heap' = sliceRouterAt(heap, SchemaRef, d).heap
          /\ returned' = Append(returned, sliceRouterAt(heap, SchemaRef, d).at)
    /\ pc' = "call"
    /\ UNCHANGED <<heapFrame, i, steps, matches, root>>

\* buildSchemaSubset: const root = {}
HeapSubsetStart ==
    /\ pc = "subset"
    /\ matches # <<>>
    /\ ~SomeRootMatch(matches)
    /\ \E d \in Depths : depth' = d
    /\ heap' = New(heap, EmptyObject("")).heap
    /\ root' = New(heap, EmptyObject("")).at
    /\ i' = 1
    /\ pc' = "insert"
    /\ UNCHANGED <<heapFrame, steps, matches, returned>>

\* buildSchemaSubset: insertPath(schema, root, match.path, depth)
HeapSubsetInsert ==
    /\ pc = "insert"
    /\ i <= Len(matches)
    /\ heap' = insertPathAt(heap, SchemaRef, root, matches[i].path, depth)
    /\ i' = i + 1
    /\ UNCHANGED <<heapFrame, pc, steps, matches, depth, root, returned>>

\* buildSchemaSubset: return root
HeapSubsetReturn ==
    /\ pc = "insert"
    /\ i > Len(matches)
    /\ returned' = Append(returned, root)
    /\ root' = 0
    /\ pc' = "call"
    /\ UNCHANGED <<heapFrame, i, steps, matches, depth, heap>>

InitHeap ==
    /\ schema \in SelTrees
    /\ heap = construct(<<>>, schema).heap
    /\ root = 0
    /\ returned = <<>>
    /\ pc = "call"
    /\ i = 1
    /\ steps = <<>>
    /\ matches = <<>>
    /\ depth = 0
    /\ subset = Null
    /\ thrown = Null
    /\ selector = ""
    /\ written = Null
    /\ argv = <<>>
    /\ flags = EmptyFlags
    /\ positionals = <<>>
    /\ cls = <<>>
    /\ ri = 1
    /\ current = schema
    /\ commandPath = <<>>
    /\ result = Null
    /\ tested = {}
    /\ wi = 1
    /\ wcurrent = schema
    /\ skipped = {}
    /\ argDefs = <<>>
    /\ input = EmptyFlags
    /\ calls = <<>>
    /\ HeapOthersIdle

NextHeap ==
    \/ HeapMatch
    \/ HeapSubsetEmpty
    \/ HeapSubsetRoot
    \/ HeapSubsetStart
    \/ HeapSubsetInsert
    \/ HeapSubsetReturn

SpecHeap == InitHeap /\ [][NextHeap]_vars

-----------------------------------------------------------------------------
(* Properties of the tree as a read-only structure *)

\* the references reachable from ref, ref included
RECURSIVE Reach(_, _)
Reach(h, ref) ==
    {ref} \cup UNION {Reach(h, h[ref].kids[k]) : k \in 1..Len(h[ref].kids)}

\* the Group and plain nodes reachable from ref
Branches(h, ref) == {a \in Reach(h, ref) : ~isCommand(h[a])}

\* the subsets in existence: those returned and the one under construction
C21_Subsets ==
    {returned[k] : k \in 1..Len(returned)} \cup (IF root = 0 THEN {} ELSE {root})

\* every object of the original tree is as it was constructed: same child
\* names, same children, same metadata
C21_OriginalKept ==
    /\ SubSeq(heap, 1, SchemaRef) = construct(<<>>, schema).heap
    /\ RouterAt(heap, SchemaRef) = schema

\* every branch node of a subset is an object of that subset alone: not one
\* of the original tree, not one of another subset
C21_NewNodes ==
    \A s \in C21_Subsets : \A a \in Branches(heap, s) :
        /\ a > SchemaRef
        /\ \A t \in C21_Subsets \ {s} : a \notin Reach(heap, t)

\* a step changes no object of the original tree and no object of a subset
\* already returned
C21_Kept ==
    \A a \in 1..Len(heap) :
        (a <= SchemaRef \/ \E k \in 1..Len(returned) :
                              a \in Reach(heap, returned[k]))
            => heap'[a] = heap[a]

\* C21: matching and subset construction leave every object of the original
\* tree unchanged, every Group or plain node of a subset is newly
\* constructed for that subset, and building or extending one subset
\* changes neither the original tree nor a subset returned before.
C21_TreeReadOnly ==
    /\ []C21_OriginalKept
    /\ []C21_NewNodes
    /\ [][C21_Kept]_vars

\* two subsets were built, the second by extending a node inserted before
\* (`.{user,deploy}..`), and both hold the same original Command
C21_Witness ==
    /\ pc = "call"
    /\ Len(returned) = 2
    /\ steps = << SetStep(<<"user", "deploy">>), RecursiveStep >>
    /\ depth = 1
    /\ \A k \in {1, 2} : Cardinality(Branches(heap, returned[k])) >= 2
    /\ \E a \in Reach(heap, returned[1]) \cap Reach(heap, returned[2]) :
          isCommand(heap[a]) /\ a <= SchemaRef

-----------------------------------------------------------------------------
(* complete(): parameters, candidates and the steps after the walk *)

\* how many words precede the word under the cursor
MaxWords == 3

IsUpper(c) == IndexOf(UpperLetters, c) # 0
ToLowerCase(c) == CharAt(LowerLetters, IndexOf(UpperLetters, c))

\* str.replace(/[A-Z]/g, (m) => `-${m.toLowerCase()}`)
RECURSIVE kebabCase(_)
kebabCase(str) ==
    IF Len(str) = 0 THEN str
    ELSE IF IsUpper(CharAt(str, 1))
         THEN "-" \o ToLowerCase(CharAt(str, 1)) \o kebabCase(SliceFrom(str, 2))
         ELSE CharAt(str, 1) \o kebabCase(SliceFrom(str, 2))

\* a property of the JSON schema of an input: its type, and its enum when
\* it is a picklist
StringProp == [type |-> "string", enum |-> Null]
BooleanProp == [type |-> "boolean", enum |-> Null]
EnumProp(type, values) == [type |-> type, enum |-> Some(values)]
Property(name, prop) == [name |-> name, prop |-> prop]

\* a natural number in decimal
RECURSIVE NatText(_)
NatText(n) ==
    IF n < 10 THEN CharAt(Digits, n + 1)
    ELSE NatText(n \div 10) \o CharAt(Digits, (n % 10) + 1)

\* JSON.stringify of a string without characters to escape, or of a number
JSONstringify(v) ==
    IF v[1] = "str" THEN "\"" \o v[2] \o "\"" ELSE NatText(v[3])

\* list.join(sep)
RECURSIVE Join(_, _)
Join(list, sep) ==
    IF list = <<>> THEN ""
    ELSE IF Len(list) = 1 THEN list[1]
    ELSE list[1] \o sep \o Join(Tail(list), sep)

\* jsonSchemaToTypeString: the enum joined by ' | ', else the type
jsonSchemaToTypeString(prop) ==
    IF prop.enum # Null
    THEN Join([k \in 1..Len(prop.enum[1]) |-> JSONstringify(prop.enum[1][k])],
              " | ")
    ELSE prop.type

\* ParamInfo of every property, in declared order
extractInputParamsDetailed(properties) ==
    [k \in 1..Len(properties) |->
        [name |-> properties[k].name,
         type |-> jsonSchemaToTypeString(properties[k].prop)]]

\* str.split(sep) for a one-character separator
RECURSIVE Split(_, _)
Split(str, sep) ==
    IF IndexOf(str, sep) = 0 THEN << str >>
    ELSE << SubSeq(str, 1, IndexOf(str, sep) - 1) >>
         \o Split(SliceFrom(str, IndexOf(str, sep) + 1), sep)

\* str.trim(), spaces being the only whitespace of a type string
RECURSIVE trim(_)
trim(str) ==
    IF Len(str) > 0 /\ CharAt(str, 1) = " " THEN trim(SliceFrom(str, 2))
    ELSE IF Len(str) > 0 /\ CharAt(str, Len(str)) = " "
    THEN trim(SubSeq(str, 1, Len(str) - 1))
    ELSE str

\* the part is written between double or between single quotes
IsQuoted(part) ==
    \/ StartsWith(part, "\"") /\ EndsWith(part, "\"")
    \/ StartsWith(part, "'") /\ EndsWith(part, "'")

\* extractEnumValues: the quoted parts without their quotes, or [] as soon
\* as one part is not quoted
extractEnumValues(typeStr) ==
    LET parts == [k \in 1..Len(Split(typeStr, "|")) |->
                     trim(Split(typeStr, "|")[k])]
    IN  IF \A k \in 1..Len(parts) : IsQuoted(parts[k])
        THEN [k \in 1..Len(parts) |-> SubSeq(parts[k], 2, Len(parts[k]) - 1)]
        ELSE <<>>

\* c.meta({ aliases, hidden }).args(...).input(schema)
CommandDef(id, aliases, hidden, args, properties) ==
    [id |-> id, kind |-> "command", aliases |-> aliases, keys |-> <<>>,
     kids |-> <<>>, hidden |-> hidden, args |-> args, input |-> properties]

\* group({ hidden }, children)
GroupDef(id, hidden, keys, kids) ==
    [id |-> id, kind |-> "group", aliases |-> <<>>, keys |-> keys,
     kids |-> kids, hidden |-> hidden, args |-> <<>>, input |-> Null]

\* a.name.endsWith('...') ? a.name.slice(0, -3) : a.name
completeArgName(name) ==
    IF EndsWith(name, "...") THEN SubSeq(name, 1, Len(name) - 3) ELSE name

\* collectParams: the parameters of the command that are no positional
\* argument, then those of the globals
collectParams(router, globalProps) ==
    LET NotArg(p) == \A k \in 1..Len(router.args) :
                        completeArgName(router.args[k]) # p.name
    IN  (IF isCommand(router) /\ router.input # Null
         THEN SelectSeq(extractInputParamsDetailed(router.input[1]), NotArg)
         ELSE <<>>)
        \o (IF globalProps # Null
            THEN extractInputParamsDetailed(globalProps[1]) ELSE <<>>)

BUILTIN_FLAGS ==
    << "--help", "-h", "--version", "-v", "--schema", "--input", "--eval",
       "--script", "--completions" >>

\* getFlagCandidates
getFlagCandidates(router, globalProps) ==
    BUILTIN_FLAGS \o
    [k \in 1..Len(collectParams(router, globalProps)) |->
        "--" \o kebabCase(collectParams(router, globalProps)[k].name)]

\* every candidate kept, whatever the prefix
filterByPrefixAll(candidates, prefix) == candidates

\* filterByPrefix
filterByPrefix(candidates, prefix) ==
    LET Starts(cand) == StartsWith(cand, prefix)
    IN  IF prefix = "" THEN candidates ELSE SelectSeq(candidates, Starts)

\* no child is hidden
isHiddenNever(child) == FALSE

\* meta.hidden of a Command or Group child, false for a plain object
isHidden(child) ==
    IF isCommand(child) \/ isGroup(child) THEN child.hidden ELSE FALSE

\* the subcommand candidates: each child that is not hidden, followed by
\* its aliases when it is a Command
childCandidates(resolved) ==
    IF isCommand(resolved) THEN <<>>
    ELSE Flatten([k \in 1..Len(resolved.keys) |->
            IF isHidden(resolved.kids[k]) THEN <<>>
            ELSE << resolved.keys[k] >> \o
                 (IF isCommand(resolved.kids[k])
                  THEN resolved.kids[k].aliases ELSE <<>>)])

\* params.find((p) => p.name === flagName): Null when there is none
findParam(params, flagName) ==
    IF \E k \in 1..Len(params) : params[k].name = flagName
    THEN Some(params[CHOOSE k \in 1..Len(params) :
                        /\ params[k].name = flagName
                        /\ \A j \in 1..(k - 1) : params[j].name # flagName])
    ELSE Null

\* the word before the cursor is `--name` of a parameter that is not boolean
\* and the word under the cursor is no flag: the parameter, else Null
valueParam ==
    IF /\ Len(argv) > 0
       /\ ~StartsWith(partial, "-")
       /\ StartsWith(argv[Len(argv)], "--")
    THEN LET param == findParam(collectParams(wcurrent, globals),
                                camelCase(SliceFrom(argv[Len(argv)], 3)))
         IN  IF param # Null /\ param[1].type # "boolean" THEN param ELSE Null
    ELSE Null

\* the tree of the completion tests, with an alias on the hidden command, a
\* picklist of numbers, a variadic argument and a hidden group
CompleteTree ==
    Plain("", <<"user", "config", "internal">>,
      << GroupDef("user", FALSE, <<"list", "delete">>,
           << CommandDef("user.list", <<"ls">>, FALSE, <<>>,
                Some(<< Property("format",
                          EnumProp("string", << VStr("json"), VStr("table"),
                                                VStr("csv") >>)),
                        Property("verbose", BooleanProp),
                        Property("level",
                          EnumProp("number", << VNum(1, 1, ""),
                                                VNum(1, 2, "") >>)) >>)),
              CommandDef("user.delete", <<"rm">>, TRUE, <<>>,
                Some(<< Property("id", StringProp) >>)) >>),
         CommandDef("config", <<>>, FALSE, <<"key", "rest...">>,
           Some(<< Property("key", StringProp),
                   Property("rest", StringProp),
                   Property("global", BooleanProp) >>)),
         GroupDef("internal", TRUE, <<>>, <<>>) >>)

\* globals: verbose (boolean), outputFormat (string)
GlobalProps ==
    << Property("verbose", BooleanProp), Property("outputFormat", StringProp) >>

\* the words before the cursor
CompleteWords ==
    {"user", "ls", "delete", "config", "--format", "--level", "--id",
     "--output-format"}

\* the word under the cursor
Partials == {"", "j", "d", "l", "--", "--o"}

\* complete: return filterByPrefix(enumValues, currentWord)
CompleteEnum ==
    /\ pc = "done"
    /\ suggestions = Null
    /\ valueParam # Null
    /\ extractEnumValues(valueParam[1].type) # <<>>
    /\ suggestions' =
          Some(filterByPrefix(extractEnumValues(valueParam[1].type), partial))
    /\ UNCHANGED <<inputVars, selectorVars, completeOthers, argv, schema, pc,
                   parseVars, routeVars, walkVars, partial, globals>>

\* complete: return [] for the value of a parameter that is no enum
CompleteNoValue ==
    /\ pc = "done"
    /\ suggestions = Null
    /\ valueParam # Null
    /\ extractEnumValues(valueParam[1].type) = <<>>
    /\ suggestions' = Some(<<>>)
    /\ UNCHANGED <<inputVars, selectorVars, completeOthers, argv, schema, pc,
                   parseVars, routeVars, walkVars, partial, globals>>

\* complete: subcommands and flags filtered by the word under the cursor
CompleteCandidates ==
    /\ pc = "done"
    /\ suggestions = Null
    /\ valueParam = Null
    /\ suggestions' =
          Some(filterByPrefix(childCandidates(wcurrent)
                                \o getFlagCandidates(wcurrent, globals),
                              partial))
    /\ UNCHANGED <<inputVars, selectorVars, completeOthers, argv, schema, pc,
                   parseVars, routeVars, walkVars, partial, globals>>

\* complete(router, globals, { words, current }) with the cursor on the last
\* word: argv holds the preceding words
InitComplete ==
    /\ schema = CompleteTree
    /\ argv \in SeqsUpTo(CompleteWords, MaxWords)
    /\ partial \in Partials
    /\ globals \in {Null, Some(GlobalProps)}
    /\ suggestions = Null
    /\ pc = "walk"
    /\ wi = 1
    /\ wcurrent = schema
    /\ skipped = {}
    /\ i = 1
    /\ flags = EmptyFlags
    /\ positionals = <<>>
    /\ cls = <<>>
    /\ ri = 1
    /\ current = schema
    /\ commandPath = <<>>
    /\ result = Null
    /\ tested = {}
    /\ argDefs = <<>>
    /\ input = EmptyFlags
    /\ calls = <<>>
    /\ selector = ""
    /\ written = Null
    /\ steps = <<>>
    /\ thrown = Null
    /\ matches = <<>>
    /\ depth = 0
    /\ subset = Null
    /\ HeapIdle
    /\ RunIdle
    /\ ScriptIdle

NextComplete ==
    \/ WalkFlag
    \/ WalkAtCommand
    \/ WalkDirect
    \/ WalkAlias
    \/ WalkBreak
    \/ WalkEnd
    \/ CompleteEnum
    \/ CompleteNoValue
    \/ CompleteCandidates

SpecComplete == InitComplete /\ [][NextComplete]_vars

-----------------------------------------------------------------------------
(* Properties of complete() *)

\* complete() has returned
Completed == pc = "done" /\ suggestions # Null

\* the declared properties that are flags at a node: those of a Command's
\* input that are no positional argument, then those of the globals
DeclaredFlags(node) ==
    LET IsFlag(p) == \A k \in 1..Len(node.args) :
                        node.args[k] # p.name /\ node.args[k] # p.name \o "..."
    IN  (IF node.kind = "command" /\ node.input # Null
         THEN SelectSeq(node.input[1], IsFlag) ELSE <<>>)
        \o (IF globals # Null THEN globals[1] ELSE <<>>)

\* the word before the cursor is `--flag` and names a declared flag
C22_Named ==
    /\ Len(argv) > 0
    /\ StartsWith(argv[Len(argv)], "--")
    /\ \E k \in 1..Len(DeclaredFlags(wcurrent)) :
          DeclaredFlags(wcurrent)[k].name
              = camelCase(SliceFrom(argv[Len(argv)], 3))

\* the first declared flag of that name
C22_Prop ==
    LET declared == DeclaredFlags(wcurrent)
    IN  declared[CHOOSE k \in 1..Len(declared) :
            /\ declared[k].name = camelCase(SliceFrom(argv[Len(argv)], 3))
            /\ \A j \in 1..(k - 1) : declared[j].name # declared[k].name].prop

\* the case of the claim: a value is being completed for a flag that is not
\* boolean
C22_ValueCase ==
    /\ Completed
    /\ ~StartsWith(partial, "-")
    /\ C22_Named
    /\ C22_Prop.type # "boolean"

\* a literal value as it is typed on a command line
C22_Literal(v) == IF v[1] = "str" THEN v[2] ELSE NatText(v[3])

\* the literal values of an enumeration that start with the partial word, in
\* declared order
C22_Matching(values) ==
    LET Starts(text) == Len(text) >= Len(partial)
                        /\ SubSeq(text, 1, Len(partial)) = partial
    IN  SelectSeq([k \in 1..Len(values) |-> C22_Literal(values[k])], Starts)

\* no suggestion is a child name, an alias or a flag name
C22_NoNames ==
    \A n \in 1..Len(suggestions[1]) :
        /\ CharAt(suggestions[1][n], 1) # "-"
        /\ \A k \in 1..Len(wcurrent.keys) :
              /\ wcurrent.keys[k] # suggestions[1][n]
              /\ \A a \in 1..Len(wcurrent.kids[k].aliases) :
                    wcurrent.kids[k].aliases[a] # suggestions[1][n]

C22_StringEnum(prop) ==
    /\ prop.enum # Null
    /\ \A k \in 1..Len(prop.enum[1]) : prop.enum[1][k][1] = "str"

C23_AtFlagWithNext ==
    /\ pc = "walk"
    /\ wi + 1 <= Len(argv)
    /\ CharAt(argv[wi], 1) = "-"

\* the two exceptions of the claim: the current node is a Command, or the
\* following token starts with `-`
C23_Excepted ==
    wcurrent.kind = "command" \/ CharAt(argv[wi + 1], 1) = "-"

\* the step at a flag skips the following token unless one of the two
\* exceptions holds, and then it does not
C23_FlagStep ==
    C23_AtFlagWithNext =>
        IF C23_Excepted THEN wi' = wi + 1 ELSE wi' = wi + 2

\* the walk never stands on a token it skipped
C23_SkippedUnused == pc = "walk" => wi \notin skipped

\* C23: during the completion walk the token after a flag is skipped as the
\* flag's value unless the current node is already a Command or that token
\* starts with `-`, and a skipped token is never used to descend.
C23_FlagValueSkipped ==
    /\ []C23_SkippedUnused
    /\ [][C23_FlagStep]_vars

\* the case of C24: complete() returned and no value of a non-boolean flag
\* was being completed
C24_Case ==
    /\ Completed
    /\ ~(/\ ~StartsWith(partial, "-")
         /\ C22_Named
         /\ C22_Prop.type # "boolean")

RangeOf(list) == {list[k] : k \in 1..Len(list)}

\* a child of the resolved node, hidden or shown
C24_Children(hidden) ==
    {k \in 1..Len(wcurrent.keys) :
        (wcurrent.kids[k].kind \in {"command", "group"}
            /\ wcurrent.kids[k].hidden) = hidden}

\* the names and aliases of the children that are not hidden
C24_ChildNames ==
    UNION {{wcurrent.keys[k]} \cup RangeOf(wcurrent.kids[k].aliases) :
              k \in C24_Children(FALSE)}

\* the names and aliases of the hidden children
C24_HiddenNames ==
    UNION {{wcurrent.keys[k]} \cup RangeOf(wcurrent.kids[k].aliases) :
              k \in C24_Children(TRUE)}

\* built-in flags, the flags of the resolved Command and the global flags
C24_FlagNames ==
    RangeOf(BUILTIN_FLAGS)
    \cup {"--" \o kebabCase(DeclaredFlags(wcurrent)[k].name) :
             k \in 1..Len(DeclaredFlags(wcurrent))}

\* C24: outside the completion of a flag value, the suggestions are exactly
\* the candidates that start with the partial word, the candidates being the
\* names and aliases of the children that are not hidden, the built-in flags,
\* the resolved Command's flags without its positional arguments and the
\* global flags; no name or alias of a hidden child is suggested, and the
\* flags of a hidden Command are offered once it is resolved.
C24_Candidates ==
    C24_Case =>
        /\ RangeOf(suggestions[1]) =
              {cand \in C24_ChildNames \cup C24_FlagNames :
                  StartsWith(cand, partial)}
        /\ RangeOf(suggestions[1]) \cap C24_HiddenNames = {}
        /\ (wcurrent.kind = "command" /\ wcurrent.hidden /\ partial = "--") =>
              \A k \in 1..Len(wcurrent.input[1]) :
                  "--" \o kebabCase(wcurrent.input[1][k].name)
                      \in RangeOf(suggestions[1])

\* `user` with the empty word: list and its alias, no delete, no rm
C24_Witness ==
    /\ Completed
    /\ argv = <<"user">>
    /\ partial = ""
    /\ globals = Null
    /\ suggestions = Some(<<"list", "ls">> \o BUILTIN_FLAGS)

-----------------------------------------------------------------------------
(* Properties of the run around the input builder *)

\* control is inside buildInput
InBuildInput == pc \in {"build", "args"}

\* a step taken inside buildInput does not end the process
C25_BuilderStep == InBuildInput => pc' # "exit"

\* C25: no function of the core ends the process; in particular the input
\* builder reports a misplaced variadic argument by returning or throwing,
\* never by process.exit.
C25_CoreNeverExits == [][C25_BuilderStep]_vars

-----------------------------------------------------------------------------
(* CLI.run: from the parsed arguments to the handler *)

\* a flag value taken as a condition
Truthy(v) ==
    IF v[1] = "bool" THEN v[2]
    ELSE IF v[1] = "str" THEN v[2] # ""
    ELSE IF v[1] = "num" THEN ~(v[3] = 0 /\ v[4] = "")
    ELSE TRUE

\* parsed.flags.<name> as a condition
FlagSet(name) == name \in DOMAIN flags /\ Truthy(flags[name])

\* parsed.flags.help || parsed.flags.h
HelpFlag == FlagSet("help") \/ FlagSet("h")

\* parsed.flags.version || parsed.flags.v
VersionFlag == FlagSet("version") \/ FlagSet("v")

\* parsed.positionals.length === 0
isRootLevel == positionals = <<>>

\* resolveRouter: the loop over the positionals, by direct child keys only
RECURSIVE resolveLoop(_, _, _, _)
resolveLoop(list, k, router, path) ==
    IF k > Len(list) \/ isCommand(router)
    THEN [commandPath |-> path, router |-> router]
    ELSE IF HasKey(getRouterChildren(router), list[k])
    THEN resolveLoop(list, k + 1, Child(getRouterChildren(router), list[k]),
                     Append(path, list[k]))
    ELSE [commandPath |-> path, router |-> router]

resolveRouter(list) == resolveLoop(list, 1, schema, <<>>)

\* extractCommand as a function of the positionals: the record it returns
RECURSIVE extractLoop(_, _, _, _)
extractLoop(list, k, router, path) ==
    IF k > Len(list)
    THEN [commandPath |-> path,
          command |-> IF isCommand(router) THEN Some(router) ELSE Null,
          remaining |-> <<>>, router |-> router, failedAt |-> Null]
    ELSE IF isCommand(router)
    THEN [commandPath |-> path, command |-> Some(router),
          remaining |-> SubSeq(list, k, Len(list)), router |-> router,
          failedAt |-> Null]
    ELSE IF HasKey(getRouterChildren(router), list[k])
    THEN extractLoop(list, k + 1, Child(getRouterChildren(router), list[k]),
                     Append(path, list[k]))
    ELSE IF findByAlias(getRouterChildren(router), list[k]) # Null
    THEN extractLoop(list, k + 1,
            findByAlias(getRouterChildren(router), list[k])[1].router,
            Append(path, findByAlias(getRouterChildren(router), list[k])[1].name))
    ELSE [commandPath |-> path, command |-> Null, remaining |-> <<>>,
          router |-> router, failedAt |-> Some(list[k])]

extractCommand(list) == extractLoop(list, 1, schema, <<>>)

\* the positionals of a run
RunTokens == {"user", "list", "ls", "zz"}

\* parsed.flags of a run that is not in scripting mode
RunFlagMaps ==
    { EmptyFlags,
      Assign(EmptyFlags, "help", VBool(TRUE)),
      Assign(EmptyFlags, "h", VBool(TRUE)),
      Assign(EmptyFlags, "help", VBool(FALSE)),
      Assign(EmptyFlags, "v", VBool(TRUE)),
      Assign(EmptyFlags, "schema", VStr(".user")),
      Assign(EmptyFlags, "src", VStr("f")) }

\* commandDef.args of the command reached
RunArgDefs == { <<>>, <<"src">>, <<"rest...">>, <<"rest...", "src">> }

runFrame == <<argv, schema, cls, walkVars, selectorVars, runOthers, flags,
              argDefs, i, input, calls>>

\* --help / -h: showHelp for the node resolveRouter reaches, then return
RunHelp ==
    /\ pc = "run"
    /\ HelpFlag
    /\ shown' = Some(resolveRouter(positionals))
    /\ pc' = "done"
    /\ UNCHANGED <<runFrame, positionals, routeVars>>

\* --version / -v at root level: print the version and return
RunVersion ==
    /\ pc = "run"
    /\ ~HelpFlag
    /\ VersionFlag /\ isRootLevel
    /\ pc' = "done"
    /\ UNCHANGED <<runFrame, positionals, routeVars, shown>>

\* --schema at root level: print the schema, or exit on an invalid selector
RunSchema ==
    /\ pc = "run"
    /\ ~HelpFlag
    /\ ~VersionFlag
    /\ FlagSet("schema") /\ isRootLevel
    /\ \E invalid \in (IF flags["schema"][1] = "str" THEN BOOLEAN ELSE {FALSE}) :
          pc' = IF invalid THEN "exit" ELSE "done"
    /\ UNCHANGED <<runFrame, positionals, routeVars, shown>>

\* otherwise: this.extractCommand(parsed.positionals)
RunExtract ==
    /\ pc = "run"
    /\ ~HelpFlag
    /\ ~((VersionFlag \/ FlagSet("schema")) /\ isRootLevel)
    /\ pc' = "route"
    /\ UNCHANGED <<runFrame, positionals, routeVars, shown>>

\* extractCommand has returned
Extracted == pc = "walk" /\ result # Null

\* a root-only flag with a subcommand: help and exit(1)
RunRootOnlyFlag ==
    /\ Extracted
    /\ result[1].commandPath # <<>>
    /\ VersionFlag \/ FlagSet("schema")
    /\ shown' = Some([commandPath |-> result[1].commandPath,
                      router |-> result[1].router])
    /\ pc' = "exit"
    /\ UNCHANGED <<runFrame, positionals, routeVars>>

\* !command with failedAt: the `is not a command` message and exit(1)
RunUnknown ==
    /\ Extracted
    /\ ~(result[1].commandPath # <<>> /\ (VersionFlag \/ FlagSet("schema")))
    /\ result[1].command = Null
    /\ result[1].failedAt # Null
    /\ pc' = "exit"
    /\ UNCHANGED <<runFrame, positionals, routeVars, shown>>

\* !command at a group: its help, exit(0) at the root and exit(1) below
RunGroup ==
    /\ Extracted
    /\ ~(result[1].commandPath # <<>> /\ (VersionFlag \/ FlagSet("schema")))
    /\ result[1].command = Null
    /\ result[1].failedAt = Null
    /\ shown' = Some([commandPath |-> result[1].commandPath,
                      router |-> result[1].router])
    /\ pc' = IF result[1].commandPath = <<>> THEN "exit0" ELSE "exit"
    /\ UNCHANGED <<runFrame, positionals, routeVars>>

\* a Command was reached: on to findHandler; buildInput will be handed
\* `remaining` as its positionals
RunCommand ==
    /\ Extracted
    /\ ~(result[1].commandPath # <<>> /\ (VersionFlag \/ FlagSet("schema")))
    /\ result[1].command # Null
    /\ positionals' = result[1].remaining
    /\ pc' = "find"
    /\ UNCHANGED <<runFrame, routeVars, shown>>

InitRun ==
    /\ schema \in Trees
    /\ positionals \in SeqsUpTo(RunTokens, MaxLen)
    /\ flags \in RunFlagMaps
    /\ argDefs \in RunArgDefs
    /\ pc = "run"
    /\ shown = Null
    /\ i = 1
    /\ input = EmptyFlags
    /\ calls = <<>>
    /\ argv = <<>>
    /\ cls = <<>>
    /\ ri = 1
    /\ current = schema
    /\ commandPath = <<>>
    /\ result = Null
    /\ tested = {}
    /\ wi = 1
    /\ wcurrent = schema
    /\ skipped = {}
    /\ selector = ""
    /\ written = Null
    /\ steps = <<>>
    /\ thrown = Null
    /\ matches = <<>>
    /\ depth = 0
    /\ subset = Null
    /\ HeapIdle
    /\ CompleteIdle
    /\ ScriptIdle

NextRun ==
    \/ RunHelp
    \/ RunVersion
    \/ RunSchema
    \/ RunExtract
    \/ RouteAtCommand
    \/ RouteDirect
    \/ RouteAlias
    \/ RouteFail
    \/ RouteEnd
    \/ RunRootOnlyFlag
    \/ RunUnknown
    \/ RunGroup
    \/ RunCommand
    \/ RunFindHandler
    \/ BuildCopy
    \/ BuildArg
    \/ BuildVariadicNotLast
    \/ BuildVariadic
    \/ BuildOverflow
    \/ RunValidate
    \/ RunGlobals
    \/ RunHandler

SpecRun == InitRun /\ [][NextRun]_vars

-----------------------------------------------------------------------------
(* Properties of CLI.run *)

\* the indexes of the handler calls
HandlerCalls == {k \in 1..Len(calls) : calls[k] = "handler"}

\* a validator reported issues
Issues ==
    \E k \in 1..Len(calls) :
        calls[k] \in {"validate: issues", "globals: issues"}

\* the handler was called: no help flag, no help shown, a Command resolved,
\* the validator calls made before it in order and without issues, and the
\* handler call is the last call of the run
C26_OnlyAfter ==
    HandlerCalls # {} =>
        /\ ~HelpFlag
        /\ shown = Null
        /\ result # Null
        /\ result[1].command # Null
        /\ ~Issues
        /\ calls \in { <<"handler">>, <<"validate", "handler">>,
                       <<"globals", "handler">>,
                       <<"validate", "globals", "handler">> }
        /\ pc \in {"done", "exit"}

\* the outcomes without a handler call, and the exit code 1 of an unknown
\* command and of validation issues (pc "exit"; "exit0" is code 0)
C26_Otherwise ==
    /\ (HelpFlag \/ shown # Null) => HandlerCalls = {}
    /\ (result # Null /\ result[1].command = Null) => HandlerCalls = {}
    /\ Issues => HandlerCalls = {} /\ pc = "exit"
    /\ (result # Null /\ result[1].failedAt # Null /\ pc # "walk") => pc = "exit"

\* the steps of a run come in order: routing only without a help flag,
\* findHandler only for a resolved Command, the input only for a handler
\* found, input validation after the input is built, globals validation
\* after input validation, the handler after globals validation; a missing
\* handler ends the run with no call made
C26_InOrder ==
    /\ (pc' = "route" /\ pc # "route") => pc = "run" /\ ~HelpFlag
    /\ (pc' = "find" /\ pc # "find") =>
          pc = "walk" /\ result # Null /\ result[1].command # Null
    /\ (pc' = "build" /\ pc # "build") => pc = "find"
    /\ (pc' = "validate" /\ pc # "validate") => pc = "args"
    /\ (pc' = "globals" /\ pc # "globals") => pc = "validate" /\ ~Issues'
    /\ (pc' = "handle" /\ pc # "handle") => pc = "globals" /\ ~Issues'
    /\ HandlerCalls' # HandlerCalls => pc = "handle"
    /\ (pc = "find" /\ pc' = "exit") => calls' = <<>>

\* C26: in a normal run the handler is called at most once, and only after,
\* in order: no help flag, a Command resolved from the positionals, a
\* handler found, the input validated without issues, the globals validated
\* without issues. Help shown, an unknown command, a group reached, a
\* missing handler and validation issues all end without a handler call,
\* and an unknown command or validation issues exit with code 1.
C26_HandlerOnce ==
    /\ [](Cardinality(HandlerCalls) <= 1)
    /\ []C26_OnlyAfter
    /\ []C26_Otherwise
    /\ [][C26_InOrder]_vars

\* `user ls` on the README tree: routed by alias, both validators passed,
\* the handler called once and returned
C26_Witness ==
    /\ pc = "done"
    /\ schema = TreeA
    /\ result # Null
    /\ result[1].commandPath = <<"user", "list">>
    /\ flags = Assign(EmptyFlags, "src", VStr("f"))
    /\ calls = <<"validate", "globals", "handler">>

\* help was shown for the help flag
HelpShown == pc = "done" /\ HelpFlag /\ shown # Null

\* C27: with a help flag set, run() shows help for the node extractCommand
\* reaches for the same positionals, under the same commandPath; `user ls
\* --help` and `user list --help` show the same Command.
C27_HelpFollowsRouting ==
    HelpShown =>
        /\ shown[1].router = extractCommand(positionals).router
        /\ shown[1].commandPath = extractCommand(positionals).commandPath

-----------------------------------------------------------------------------
(* Properties of set segments *)

\* a `{` with no `}` after it
C28_Unclosed ==
    \E k \in 1..Len(selector) :
        /\ charAt(selector, k) = "{"
        /\ \A j \in (k + 1)..Len(selector) : charAt(selector, j) # "}"

\* the first character after position k that is no space, "" at the end
RECURSIVE C28_NextAfter(_)
C28_NextAfter(k) ==
    IF k + 1 > Len(selector) THEN ""
    ELSE IF charAt(selector, k + 1) = " " THEN C28_NextAfter(k + 1)
    ELSE charAt(selector, k + 1)

\* a comma that no name follows
C28_CommaWithoutName ==
    \E k \in 1..Len(selector) :
        /\ charAt(selector, k) = ","
        /\ ~C14_IdentifierChar(C28_NextAfter(k))

\* C28: a selector in which a `{` is not closed by a `}`, or in which a
\* comma is not followed by a name, is rejected with an error.
C28_SetsWellFormed ==
    (pc # "select" /\ (C28_Unclosed \/ C28_CommaWithoutName)) => Rejected

-----------------------------------------------------------------------------
(* From the command line to the handler's input: parseArgv, extractCommand
   and buildInput in sequence, for a schema that is a single command.  The
   tokens set none of the help, version and schema flags, so run() passes
   from parseArgv straight to extractCommand (ParseReturn); the
   specification ends when buildInput returns or exits. *)

\* argv of a run: every flag form with and without a value, and values of
\* each lexical kind
LineTokens ==
    {"--", "--no-color", "--port", "--port=5432", "--tag=1.0.0", "--name=",
     "-p", "-10", "5432", "true", "", "1.0.0"}

\* commandDef.args of the command
LineArgDefs == { <<"src">>, <<"src", "rest...">>, <<"rest...", "src">> }

InitLine ==
    /\ argv \in SeqsUpTo(LineTokens, MaxLen)
    /\ argDefs \in LineArgDefs
    /\ schema = TreeC
    /\ pc = "parse"
    /\ i = 1
    /\ flags = EmptyFlags
    /\ positionals = <<>>
    /\ cls = <<>>
    /\ ri = 1
    /\ current = TreeC
    /\ commandPath = <<>>
    /\ result = Null
    /\ tested = {}
    /\ wi = 1
    /\ wcurrent = TreeC
    /\ skipped = {}
    /\ input = EmptyFlags
    /\ calls = <<>>
    /\ selector = ""
    /\ written = Null
    /\ steps = <<>>
    /\ thrown = Null
    /\ matches = <<>>
    /\ depth = 0
    /\ subset = Null
    /\ LateIdle

NextLine ==
    \/ ParseSeparator
    \/ ParseNegation
    \/ ParseLongEquals
    \/ ParseLong
    \/ ParseShort
    \/ ParseCombined
    \/ ParsePositional
    \/ ParseReturn
    \/ RouteAtCommand
    \/ RouteEnd
    \/ RunCommand
    \/ RunFindHandler
    \/ BuildCopy
    \/ BuildArg
    \/ BuildVariadicNotLast
    \/ BuildVariadic
    \/ BuildOverflow

SpecLine == InitLine /\ [][NextLine]_vars

-----------------------------------------------------------------------------
(* C29 *)

\* what the claim says a flag's value text becomes
C29_Coerced(text) ==
    IF text = "5432" THEN VNum(1, 5432, "")
    ELSE IF text = "true" THEN VBool(TRUE)
    ELSE VStr(text)

\* the value most recently stored under a flag
C29_Stored(f, key) ==
    IF IsList(f[key]) THEN f[key][2][Len(f[key][2])] ELSE f[key]

C29_Equals == IsLong(Arg) /\ IndexOf(Arg, "=") # 0
C29_LongValue == IsLong(Arg) /\ IndexOf(Arg, "=") = 0 /\ i' = i + 2
C29_ShortValue == IsDash(Arg) /\ Len(Arg) = 2 /\ i' = i + 2

\* a parser step that stores a flag value stores the coerced text, the same
\* in the three forms
C29_FlagStep ==
    (InLoop /\ i' # i) =>
        /\ C29_Equals =>
              C29_Stored(flags', SubSeq(Arg, 3, IndexOf(Arg, "=") - 1))
                  = C29_Coerced(SliceFrom(Arg, IndexOf(Arg, "=") + 1))
        /\ C29_LongValue =>
              C29_Stored(flags', SliceFrom(Arg, 3)) = C29_Coerced(argv[i + 1])
        /\ C29_ShortValue =>
              C29_Stored(flags', CharAt(Arg, 2)) = C29_Coerced(argv[i + 1])

\* the tokens of argv classified positional, as written on the command line
C29_IsPositional(c) == c[2] = "positional"
C29_Tokens ==
    [k \in 1..Len(SelectSeq(cls, C29_IsPositional)) |->
        argv[SelectSeq(cls, C29_IsPositional)[k][1]]]

\* `positionals` holds those tokens unchanged while parsing and routing
C29_PositionalsRaw ==
    pc \in {"parse", "route", "walk"} => positionals = C29_Tokens

C29_Strings(from) ==
    VList([n \in 1..(Len(C29_Tokens) - from + 1) |->
              VStr(C29_Tokens[from + n - 1])])

\* the input buildInput returns holds them as the strings they were
C29_InputRaw ==
    pc = "validate" =>
        /\ \A k \in 1..Len(argDefs) :
              (~isVariadic(argDefs[k]) /\ k <= Len(C29_Tokens)) =>
                  Holds(input, argDefs[k], VStr(C29_Tokens[k]))
        /\ \A k \in 1..Len(argDefs) :
              isVariadic(argDefs[k]) =>
                  Holds(input, normalizeArgName(argDefs[k]), C29_Strings(k))
        /\ (~LastIsVariadic /\ Len(C29_Tokens) > Len(argDefs)) =>
              Holds(input, "_positionals", C29_Strings(Len(argDefs) + 1))

\* C29: type coercion applies to flag values only and identically in the
\* `--key value`, `--key=value` and `-k value` forms (a numeric string
\* becomes a number, true/false a boolean, anything else including the empty
\* string and 1.0.0 stays a string); positional tokens, tokens after `--`
\* and the values buildInput assigns to declared or variadic arguments are
\* the original strings
C29_OnlyFlagValuesCoerced ==
    /\ [][C29_FlagStep]_vars
    /\ []C29_PositionalsRaw
    /\ []C29_InputRaw

\* `-p 5432 5432`: the flag holds the number, the argument the string
C29_Witness ==
    /\ argv = <<"-p", "5432", "5432">>
    /\ argDefs = <<"src">>
    /\ pc = "validate"
    /\ Holds(input, "p", VNum(1, 5432, ""))
    /\ Holds(input, "src", VStr("5432"))

-----------------------------------------------------------------------------
(* Scripting mode (--eval / --script): runScriptMode and the handler
   functions buildScriptHandlerTree hands to the script.  The script is any
   sequence of handler calls; a call is numbered by the order in which the
   script made it, and the calls in flight advance in any order, one await
   at a time.  The value the k-th call of the context factory resolves to is
   written k, and 0 is `undefined`. *)

\* the handler calls one script makes
MaxCalls == 3

scriptFrame == <<argv, schema, parseVars, routeVars, walkVars, inputVars,
                 selectorVars, heapVars, completeVars, runVars, hasContext>>

SetCall(c, to) == [callPc EXCEPT ![c] = to]

\* the process has not exited and call c stands at `at`
CallAt(c, at) == pc # "exit" /\ c \in 1..Len(callPc) /\ callPc[c] = at

\* this.options.globals['~standard'].validate(flagsWithoutBuiltins): issues
\* end the run before the script starts
ScriptGlobals ==
    /\ pc = "scriptGlobals"
    /\ \E outcome \in {"no schema", "value", "issues"} :
          pc' = IF outcome = "issues" THEN "exit" ELSE "script"
    /\ UNCHANGED <<scriptFrame, contextPromise, factory, callPc, received>>

\* the script calls a handler function: without a handler the call rejects
\* with `No handler for command`
ScriptCall ==
    /\ pc = "script"
    /\ Len(callPc) < MaxCalls
    /\ \E found \in BOOLEAN :
          callPc' = Append(callPc, IF found THEN "validate" ELSE "no handler")
    /\ received' = Append(received, Null)
    /\ UNCHANGED <<scriptFrame, pc, contextPromise, factory>>

\* def.input['~standard'].validate(providedInput): issues end the run
CallValidate(c) ==
    /\ CallAt(c, "validate")
    /\ \E outcome \in {"no schema", "value", "issues"} :
          IF outcome = "issues"
          THEN pc' = "exit" /\ UNCHANGED callPc
          ELSE callPc' = SetCall(c, "context") /\ UNCHANGED pc
    /\ UNCHANGED <<scriptFrame, contextPromise, factory, received>>

\* getContext that calls the factory whether or not a promise is kept
CallGetContextFresh(c) ==
    /\ CallAt(c, "context")
    /\ IF ~hasContext
       THEN /\ callPc' = SetCall(c, "await")
            /\ UNCHANGED <<contextPromise, factory>>
       ELSE \E outcome \in {"value", "rejected", "threw"} :
               /\ factory' = Append(factory, outcome)
               /\ IF outcome = "threw"
                  THEN /\ callPc' = SetCall(c, "rejected")
                       /\ UNCHANGED contextPromise
                  ELSE /\ callPc' = SetCall(c, "await")
                       /\ contextPromise' = Some(Len(factory) + 1)
    /\ UNCHANGED <<scriptFrame, pc, received>>

\* getContext() up to its await: without a factory it returns undefined;
\* with no promise kept it calls the factory and keeps Promise.resolve of
\* what the factory returned, unless the factory threw; otherwise it awaits
\* the promise kept
CallGetContext(c) ==
    /\ CallAt(c, "context")
    /\ IF ~hasContext
       THEN /\ callPc' = SetCall(c, "await")
            /\ UNCHANGED <<contextPromise, factory>>
       ELSE IF contextPromise = Null
       THEN \E outcome \in {"value", "rejected", "threw"} :
               /\ factory' = Append(factory, outcome)
               /\ IF outcome = "threw"
                  THEN /\ callPc' = SetCall(c, "rejected")
                       /\ UNCHANGED contextPromise
                  ELSE /\ callPc' = SetCall(c, "await")
                       /\ contextPromise' = Some(Len(factory) + 1)
       ELSE /\ callPc' = SetCall(c, "await")
            /\ UNCHANGED <<contextPromise, factory>>
    /\ UNCHANGED <<scriptFrame, pc, received>>

\* what `await contextPromise` gives: Null when the promise is rejected
Awaited ==
    IF ~hasContext THEN Some(0)
    ELSE IF factory[contextPromise[1]] = "value" THEN contextPromise
    ELSE Null

\* const context = await getContext(); return await handler({ input,
\* context, meta }): a rejected promise rejects the call, otherwise the
\* handler is called and returns or throws
CallHandler(c) ==
    /\ CallAt(c, "await")
    /\ IF Awaited = Null
       THEN /\ callPc' = SetCall(c, "rejected")
            /\ UNCHANGED received
       ELSE /\ received' = [received EXCEPT ![c] = Awaited]
            /\ \E outcome \in {"returned", "threw"} :
                  callPc' = SetCall(c, IF outcome = "returned" THEN "done"
                                       ELSE "rejected")
    /\ UNCHANGED <<scriptFrame, pc, contextPromise, factory>>

\* runEval / runScriptFile returns, or throws and the run exits
ScriptEnd ==
    /\ pc = "script"
    /\ \E outcome \in {"returned", "threw"} :
          pc' = IF outcome = "returned" THEN "done" ELSE "exit"
    /\ UNCHANGED <<scriptFrame, contextPromise, factory, callPc, received>>

InitScript ==
    /\ hasContext \in BOOLEAN
    /\ pc = "scriptGlobals"
    /\ contextPromise = Null
    /\ factory = <<>>
    /\ callPc = <<>>
    /\ received = <<>>
    /\ argv = <<>>
    /\ schema = TreeC
    /\ i = 1
    /\ flags = EmptyFlags
    /\ positionals = <<>>
    /\ cls = <<>>
    /\ ri = 1
    /\ current = TreeC
    /\ commandPath = <<>>
    /\ result = Null
    /\ tested = {}
    /\ wi = 1
    /\ wcurrent = TreeC
    /\ skipped = {}
    /\ argDefs = <<>>
    /\ input = EmptyFlags
    /\ calls = <<>>
    /\ selector = ""
    /\ written = Null
    /\ steps = <<>>
    /\ thrown = Null
    /\ matches = <<>>
    /\ depth = 0
    /\ subset = Null
    /\ HeapIdle
    /\ CompleteIdle
    /\ RunIdle

NextScript ==
    \/ ScriptGlobals
    \/ ScriptCall
    \/ \E c \in 1..MaxCalls : CallValidate(c)
    \/ \E c \in 1..MaxCalls : CallGetContext(c)
    \/ \E c \in 1..MaxCalls : CallHandler(c)
    \/ ScriptEnd

SpecScript == InitScript /\ [][NextScript]_vars

-----------------------------------------------------------------------------
(* C30 *)

C30_Calls == 1..Len(callPc)

\* the factory threw synchronously at some call
C30_ThrewSync == \E k \in 1..Len(factory) : factory[k] = "threw"

\* call c has reached getContext's call of the factory or gone past it
C30_AskedContext(c) ==
    callPc[c] \in {"await", "done", "rejected"}

\* the factory is called only once a handler call asks for the context, so
\* never when the script calls no handler
C30_Lazy ==
    factory # <<>> =>
        /\ hasContext
        /\ \E c \in C30_Calls : C30_AskedContext(c)

\* unless it threw synchronously the factory is called at most once
C30_Once == ~C30_ThrewSync => Len(factory) <= 1

\* and every handler called was called with the value of that one call
C30_SameContext ==
    ~C30_ThrewSync =>
        \A c \in C30_Calls :
            received[c] # Null =>
                received[c] = IF hasContext THEN Some(1) ELSE Some(0)

\* C30: in scripting mode the context factory is invoked lazily and at most
\* once per run: never if the script calls no handler, and once when
\* several handler calls are in flight at the same time, every call
\* receiving the same context value, provided the factory does not throw
\* synchronously
C30_ContextOnce == C30_Lazy /\ C30_Once /\ C30_SameContext

\* the first call is still awaiting the promise while the second, made
\* after it, has had its handler called with the value of the one factory
\* call, and a third is awaiting too
C30_Witness ==
    /\ hasContext
    /\ factory = <<"value">>
    /\ callPc = <<"await", "done", "await">>
    /\ received = <<Null, Some(1), Null>>

====
